---- MODULE Spec2Model ----
(***************************************************************************)
(* Routing and request-dispatch core of arcanajs/server:                   *)
(*   Layer      (modules/router/layer.ts)                                  *)
(*   RadixTree  (modules/router/radix-tree.ts)                             *)
(*   Router     (modules/router/router.ts)                                 *)
(* Strings are sequences of one-character strings, so that startsWith,     *)
(* substring, split and the compiled regular expressions are computed      *)
(* character by character as the code computes them.                       *)
(***************************************************************************)
EXTENDS Integers, Sequences, FiniteSets, TLC

\* ------------------------------------------------------------------ bounds
\* layers registered on the router before a request is dispatched
MaxLayers == 3

\* ----------------------------------------------------------------- strings
NoMatch == [ok |-> FALSE]

Digits == {"0", "1", "2", "3", "4", "5", "6", "7", "8", "9"}
LowerLetters == {"a", "b", "c", "d", "e", "f", "g", "h", "i", "j", "k", "l", "m",
                 "n", "o", "p", "q", "r", "s", "t", "u", "v", "w", "x", "y", "z"}
UpperLetters == {"A", "B", "C", "D", "E", "F", "G", "H", "I", "J", "K", "L", "M",
                 "N", "O", "P", "Q", "R", "S", "T", "U", "V", "W", "X", "Y", "Z"}
\* the regular-expression class \w
WordChars == LowerLetters \cup UpperLetters \cup Digits \cup {"_"}

\* the "i" flag of the Layer's RegExp: characters compare by their lower case
Lower(c) ==
    CASE c = "A" -> "a" [] c = "B" -> "b" [] c = "C" -> "c" [] c = "D" -> "d"
      [] c = "E" -> "e" [] c = "F" -> "f" [] c = "G" -> "g" [] c = "H" -> "h"
      [] c = "I" -> "i" [] c = "J" -> "j" [] c = "K" -> "k" [] c = "L" -> "l"
      [] c = "M" -> "m" [] c = "N" -> "n" [] c = "O" -> "o" [] c = "P" -> "p"
      [] c = "Q" -> "q" [] c = "R" -> "r" [] c = "S" -> "s" [] c = "T" -> "t"
      [] c = "U" -> "u" [] c = "V" -> "v" [] c = "W" -> "w" [] c = "X" -> "x"
      [] c = "Y" -> "y" [] c = "Z" -> "z" [] OTHER -> c

Max(S) == CHOOSE x \in S : \A y \in S : y <= x
Min(S) == CHOOSE x \in S : \A y \in S : x <= y

\* String.prototype.startsWith
startsWith(s, p) == Len(p) <= Len(s) /\ SubSeq(s, 1, Len(p)) = p
\* String.prototype.endsWith
endsWith(s, p) == Len(p) <= Len(s) /\ SubSeq(s, Len(s) - Len(p) + 1, Len(s)) = p
\* String.prototype.substring(k) / slice(k), k counted from 0
substring(s, k) == IF k >= Len(s) THEN <<>> ELSE SubSeq(s, k + 1, Len(s))
\* a slice that keeps nothing
sliceNone(s, k) == <<>>
\* String.prototype.slice(0, k)
sliceTo(s, k) == SubSeq(s, 1, IF k < Len(s) THEN k ELSE Len(s))

\* number of characters of s from position i (1-based) on that are not "/"
RECURSIVE NonSlashRun(_, _)
NonSlashRun(s, i) ==
    IF i > Len(s) \/ s[i] = "/" THEN 0 ELSE 1 + NonSlashRun(s, i + 1)

\* number of characters of s from position i on that are in \w
RECURSIVE WordRun(_, _)
WordRun(s, i) ==
    IF i > Len(s) \/ s[i] \notin WordChars THEN 0 ELSE 1 + WordRun(s, i + 1)

\* path.split("/").filter(Boolean): the non-empty segments of a path
RECURSIVE SplitFrom(_, _)
SplitFrom(s, i) ==
    IF i > Len(s) THEN <<>>
    ELSE IF s[i] = "/" THEN SplitFrom(s, i + 1)
    ELSE LET n == NonSlashRun(s, i)
         IN  <<SubSeq(s, i, i + n - 1)>> \o SplitFrom(s, i + n)
splitSegments(s) == SplitFrom(s, 1)

\* segments.slice(index).join("/")
RECURSIVE joinSegments(_, _)
joinSegments(segs, i) ==
    IF i > Len(segs) THEN <<>>
    ELSE IF i = Len(segs) THEN segs[i]
    ELSE segs[i] \o <<"/">> \o joinSegments(segs, i + 1)

\* { ...a, ...b } on parameter maps (functions from names to values)
Merge(a, b) ==
    [k \in (DOMAIN a) \cup (DOMAIN b) |-> IF k \in DOMAIN b THEN b[k] ELSE a[k]]
EmptyMap == [k \in {} |-> <<>>]

\* ------------------------------------------------------------- constraints
\* A RouteConstraints value maps parameter names to a RegExp or a predicate.
\* The patterns and predicates registered in this model:
\*   /^\d+$/  and  (v) => v.length <= 1
DigitsPattern == [type |-> "RegExp", id |-> "digits"]
ShortValidator == [type |-> "function", id |-> "short"]
Undefined == [type |-> "undefined", id |-> "undefined"]

\* an absent constraints argument (undefined), and a given one
NoConstraints == [defined |-> FALSE, map |-> EmptyMap]
Constraints(m) == [defined |-> TRUE, map |-> m]

\* constraint.test(value) for a RegExp, constraint(value) for a predicate
TestConstraint(c, value) ==
    IF c.type = "RegExp"
    THEN Len(value) >= 1 /\ \A i \in 1..Len(value) : value[i] \in Digits
    ELSE Len(value) <= 1

\* a ParamConstraint {pattern?, validator?}
ParamConstraint(pattern, validator) ==
    [type |-> "ParamConstraint", pattern |-> pattern, validator |-> validator]

\* ------------------------------------------------------------------- Layer
\* Names of the synthetic capture groups of the compiled pattern.
CatchAllName == <<"c", "a", "t", "c", "h", "A", "l", "l">>
WildcardName == <<"w", "i", "l", "d", "c", "a", "r", "d">>

\* The constructor's chain of replace() calls, as the tokens of the resulting
\* regular expression source:
\*   lit       one literal character ("/" becomes "\/")
\*   param     (?<name>[^\/]+)   or, optional,  (?:(?<name>[^\/]+))?
\*   catchAll  "**" is first replaced by (?<catchAll>.*), and the "*" inside that
\*             replacement is then rewritten by the following replace(/\*/g, ...):
\*             (?<catchAll>.(?<wildcard>[^\/]+))
\*   wildcard  (?<wildcard>[^\/]+)
\*   tail      (?:\/.*)?   appended for a USE layer whose path has no trailing "/"
RECURSIVE PatternTokens(_, _)
PatternTokens(p, i) ==
    IF i > Len(p) THEN <<>>
    ELSE IF p[i] = ":" /\ WordRun(p, i + 1) > 0
    THEN LET n == WordRun(p, i + 1)
             opt == i + n + 1 <= Len(p) /\ p[i + n + 1] = "?"
         IN  <<[t |-> "param", name |-> SubSeq(p, i + 1, i + n), opt |-> opt]>>
                 \o PatternTokens(p, i + n + 1 + (IF opt THEN 1 ELSE 0))
    ELSE IF p[i] = "*" /\ i + 1 <= Len(p) /\ p[i + 1] = "*"
    THEN <<[t |-> "catchAll"]>> \o PatternTokens(p, i + 2)
    ELSE IF p[i] = "*"
    THEN <<[t |-> "wildcard"]>> \o PatternTokens(p, i + 1)
    ELSE <<[t |-> "lit", c |-> p[i]]>> \o PatternTokens(p, i + 1)

\* new Layer(path, method, handler, constraints)
Layer(path, method, handler, constraints) ==
    LET toks == PatternTokens(path, 1)
        ps == SelectSeq(toks, LAMBDA t : t.t = "param")
    IN  [ path |-> path,
          method |-> method,
          handler |-> handler,
          constraints |-> constraints,
          fast_slash |-> (path = <<"*">> \/ path = <<"/">>),
          keys |-> [i \in 1..Len(ps) |-> ps[i].name],
          optional |-> {ps[i].name : i \in {j \in 1..Len(ps) : ps[j].opt}},
          regexp |-> [ toks |-> IF method = "USE" /\ ~endsWith(path, <<"/">>)
                                   /\ path # <<"*">>
                                THEN toks \o <<[t |-> "tail"]>> ELSE toks,
                       anchored |-> path # <<"*">> ] ]

\* RegExp.prototype.exec from position si of s with token ti: the named groups
\* of the first match the backtracking matcher finds (greedy quantifiers: the
\* longest alternative first), or NoMatch.
RECURSIVE RegexFrom(_, _, _, _, _)
RegexFrom(re, ti, s, si, g) ==
    IF ti > Len(re.toks)
    THEN IF re.anchored /\ si # Len(s) + 1 THEN NoMatch ELSE [ok |-> TRUE, groups |-> g]
    ELSE LET tok == re.toks[ti]
             run == NonSlashRun(s, si)
         IN CASE tok.t = "lit" ->
                   IF si <= Len(s) /\ Lower(s[si]) = Lower(tok.c)
                   THEN RegexFrom(re, ti + 1, s, si + 1, g) ELSE NoMatch
              [] tok.t \in {"param", "wildcard"} ->
                   LET name == IF tok.t = "param" THEN tok.name ELSE WildcardName
                       opt == tok.t = "param" /\ tok.opt
                       bind(k) == Merge(g, [n \in {name} |-> SubSeq(s, si, si + k - 1)])
                       ok == {k \in 1..run :
                                 RegexFrom(re, ti + 1, s, si + k, bind(k)) 
                                     .ok}
                   IN  IF ok # {}
                       THEN RegexFrom(re, ti + 1, s, si + Max(ok), bind(Max(ok)))
                       ELSE IF opt THEN RegexFrom(re, ti + 1, s, si, g)
                       ELSE NoMatch
              [] tok.t = "catchAll" ->
                   LET run1 == NonSlashRun(s, si + 1)
                       bind(k) == Merge(g,
                           [n \in {CatchAllName, WildcardName} |->
                               IF n = CatchAllName THEN SubSeq(s, si, si + k)
                               ELSE SubSeq(s, si + 1, si + k)])
                       ok == {k \in 1..run1 :
                                 RegexFrom(re, ti + 1, s, si + 1 + k, bind(k)) 
                                     .ok}
                   IN  IF si <= Len(s) /\ ok # {}
                       THEN RegexFrom(re, ti + 1, s, si + 1 + Max(ok), bind(Max(ok)))
                       ELSE NoMatch
              [] tok.t = "tail" ->
                   LET ok == IF si <= Len(s) /\ s[si] = "/"
                             THEN {j \in (si + 1)..(Len(s) + 1) :
                                      RegexFrom(re, ti + 1, s, j, g) 
                                     .ok}
                             ELSE {}
                   IN  IF ok # {} THEN RegexFrom(re, ti + 1, s, Max(ok), g)
                       ELSE RegexFrom(re, ti + 1, s, si, g)

regexpExec(re, s) == RegexFrom(re, 1, s, 1, EmptyMap)
regexpTest(re, s) == regexpExec(re, s).ok

\* Layer.match(path)
match(layer, path) ==
    IF layer.path = <<"*">> THEN TRUE
    ELSE IF layer.fast_slash /\ path = <<"/">> THEN TRUE
    ELSE IF layer.method = "USE"
    THEN startsWith(path, layer.path) \/ regexpTest(layer.regexp, path)
    ELSE regexpTest(layer.regexp, path)

\* Layer.params(path): the named groups that took part in the match
params(layer, path) ==
    LET m == regexpExec(layer.regexp, path)
    IN  IF ~m.ok THEN EmptyMap ELSE m.groups

\* Layer.validateParams(params)
validateParams(layer, ps) ==
    IF ~layer.constraints.defined THEN TRUE
    ELSE \A key \in DOMAIN layer.constraints.map :
            IF key \in layer.optional /\ key \notin DOMAIN ps THEN TRUE
            ELSE IF key \in DOMAIN ps
            THEN TestConstraint(layer.constraints.map[key], ps[key])
            ELSE key \in layer.optional

\* --------------------------------------------------------------- RadixTree
STATIC == 0
PARAM == 1
CATCH_ALL == 2

\* an undefined paramName, an undefined child reference
NoName == <<>>
NoNode == 0
NoChildren == [k \in {} |-> 0]
NoRoutes == [k \in {} |-> 0]

\* createNode(path, type)
createNode(path, type) ==
    [ path |-> path, type |-> type, paramName |-> NoName,
      children |-> NoChildren, routes |-> NoRoutes, priority |-> 0,
      wildcardChild |-> NoNode, paramChild |-> NoNode ]

\* new RadixTree(): the nodes are held by reference; node 1 is _root
RootNode == 1
NewRadixTree == [nodes |-> <<createNode(<<>>, STATIC)>>, _routeCount |-> 0]

\* /^:(\w+)(?:<(.+)>)?(\?)?$/ on a segment: the parameter name, or <<>> when
\* the segment does not match
ParamSegmentName(segment) ==
    LET n == WordRun(segment, 2)
        rest == substring(segment, 1 + n)
        rest2 == IF Len(rest) >= 1 /\ rest[Len(rest)] = "?"
                 THEN sliceTo(rest, Len(rest) - 1) ELSE rest
        angle(r) == Len(r) >= 3 /\ r[1] = "<" /\ r[Len(r)] = ">"
    IN  IF n > 0 /\ (rest = <<>> \/ rest2 = <<>> \/ angle(rest) \/ angle(rest2))
        THEN SubSeq(segment, 2, 1 + n) ELSE NoName

\* RadixTree._parsePath: one {path, type, paramName} per non-empty segment
parseSegment(segment) ==
    IF segment[1] = ":" /\ ParamSegmentName(segment) # NoName
    THEN [path |-> segment, type |-> PARAM, paramName |-> ParamSegmentName(segment)]
    ELSE IF segment[1] # ":" /\ segment[1] = "*"
    THEN [path |-> segment, type |-> CATCH_ALL,
          paramName |-> IF Len(segment) > 1 THEN substring(segment, 1)
                        ELSE WildcardName]
    ELSE [path |-> segment, type |-> STATIC, paramName |-> NoName]

_parsePath(path) ==
    LET segs == splitSegments(path)
    IN  [i \in 1..Len(segs) |-> parseSegment(segs[i])]

\* the paramNames array _parsePath fills
paramNamesOf(path) ==
    LET parsed == _parsePath(path)
        named == SelectSeq(parsed, LAMBDA sg : sg.type # STATIC)
    IN  [i \in 1..Len(named) |-> named[i].paramName]

\* RadixTree._commonPrefixLength
RECURSIVE CommonFrom(_, _, _)
CommonFrom(a, b, i) ==
    IF i < Min({Len(a), Len(b)}) /\ a[i + 1] = b[i + 1]
    THEN CommonFrom(a, b, i + 1) ELSE i
\* a comparison that never finds a common prefix
NoCommonPrefix(a, b) == 0
_commonPrefixLength(a, b) == CommonFrom(a, b, 0)

\* Map.set on a children / routes map
MapSet(m, k, v) == [x \in (DOMAIN m) \cup {k} |-> IF x = k THEN v ELSE m[x]]

\* RadixTree._insert(parent, segment): the tree after the insertion and the
\* node the segment ends on
_insert(tree, parent, segment) ==
    LET nodes == tree.nodes
        pn == nodes[parent]
        fresh == Len(nodes) + 1
    IN
    IF segment.type = PARAM
    THEN IF pn.paramChild = NoNode
         THEN [ tree |-> [tree EXCEPT !.nodes =
                    Append([nodes EXCEPT ![parent].paramChild = fresh],
                           [createNode(segment.path, PARAM)
                               EXCEPT !.paramName = segment.paramName])],
                node |-> fresh ]
         ELSE [tree |-> tree, node |-> pn.paramChild]
    ELSE IF segment.type = CATCH_ALL
    THEN IF pn.wildcardChild = NoNode
         THEN [ tree |-> [tree EXCEPT !.nodes =
                    Append([nodes EXCEPT ![parent].wildcardChild = fresh],
                           [createNode(segment.path, CATCH_ALL)
                               EXCEPT !.paramName = segment.paramName])],
                node |-> fresh ]
         ELSE [tree |-> tree, node |-> pn.wildcardChild]
    ELSE
    LET key == segment.path[1]
    IN
    IF key \notin DOMAIN pn.children
    THEN [ tree |-> [tree EXCEPT !.nodes =
               Append([nodes EXCEPT ![parent].children = MapSet(pn.children, key, fresh)],
                      createNode(segment.path, STATIC))],
           node |-> fresh ]
    ELSE
    LET child == pn.children[key]
        cn == nodes[child]
        commonLen == _commonPrefixLength(cn.path, segment.path)
        \* split the existing node: the demoted child takes the remainder
        splitNeeded == commonLen < Len(cn.path)
        splitChild == [ createNode(substring(cn.path, commonLen), cn.type)
                          EXCEPT !.children = cn.children,
                                 !.routes = cn.routes,
                                 !.priority = cn.priority,
                                 !.paramChild = cn.paramChild,
                                 !.wildcardChild = cn.wildcardChild ]
        nodes1 == IF splitNeeded
                  THEN Append([nodes EXCEPT ![child] =
                                  [ cn EXCEPT
                                      !.path = sliceTo(cn.path, commonLen),
                                      !.children = MapSet(NoChildren, splitChild.path[1], fresh),
                                      !.routes = NoRoutes,
                                      !.paramChild = NoNode,
                                      !.wildcardChild = NoNode ]],
                              splitChild)
                  ELSE nodes
        cn1 == nodes1[child]
        remainingPath == substring(segment.path, commonLen)
        remainingKey == remainingPath[1]
        fresh1 == Len(nodes1) + 1
    IN
    IF commonLen < Len(segment.path)
    THEN IF remainingKey \notin DOMAIN cn1.children
         THEN [ tree |-> [tree EXCEPT !.nodes =
                    Append([nodes1 EXCEPT ![child].children =
                                MapSet(cn1.children, remainingKey, fresh1)],
                           createNode(remainingPath, STATIC))],
                node |-> fresh1 ]
         ELSE [ tree |-> [tree EXCEPT !.nodes = nodes1],
                node |-> cn1.children[remainingKey] ]
    ELSE [tree |-> [tree EXCEPT !.nodes = nodes1], node |-> child]

\* the loop of add over the parsed segments
RECURSIVE InsertAll(_, _, _, _)
InsertAll(tree, node, segments, i) ==
    IF i > Len(segments) THEN [tree |-> tree, node |-> node]
    ELSE LET r == _insert(tree, node, segments[i])
         IN  InsertAll(r.tree, r.node, segments, i + 1)

\* RadixTree.add(method, path, handlers, constraints)
add(tree, method, path, handlers, constraints) ==
    LET r == InsertAll(tree, RootNode, _parsePath(path), 1)
        routeConstraints ==
            [name \in DOMAIN constraints.map |->
                IF constraints.map[name].type = "RegExp"
                THEN ParamConstraint(constraints.map[name], Undefined)
                ELSE constraints.map[name]]
        route == [ method |-> method,
                   path |-> path,
                   handlers |-> handlers,
                   constraints |-> routeConstraints,
                   paramNames |-> paramNamesOf(path) ]
        n == r.tree.nodes[r.node]
    IN  [ nodes |-> [r.tree.nodes EXCEPT
                        ![r.node] = [ n EXCEPT !.routes = MapSet(n.routes, method, route),
                                               !.priority = n.priority + 1 ]],
          _routeCount |-> tree._routeCount + 1 ]

\* node.routes.get(method) || node.routes.get("USE")
routeFor(node, method) ==
    IF method \in DOMAIN node.routes THEN node.routes[method] ELSE node.routes["USE"]
hasRouteFor(node, method) ==
    method \in DOMAIN node.routes \/ "USE" \in DOMAIN node.routes

\* the constraint loop of _search's base case
constraintsPass(route, ps) ==
    \A pName \in DOMAIN route.constraints :
        LET constraint == route.constraints[pName] IN
        pName \in DOMAIN ps =>
            ~ \/ (constraint.pattern # Undefined
                    /\ ~TestConstraint(constraint.pattern, ps[pName]))
              \/ (constraint.validator # Undefined
                    /\ ~TestConstraint(constraint.validator, ps[pName]))

\* RadixTree._search(node, method, segments, index, params); index counts from 0
RECURSIVE _search(_, _, _, _, _, _)
_search(tree, node, method, segments, index, ps) ==
    LET n == tree.nodes[node] IN
    IF index = Len(segments)
    THEN IF hasRouteFor(n, method) /\ constraintsPass(routeFor(n, method), ps)
         THEN [ok |-> TRUE, node |-> node, params |-> ps]
         ELSE NoMatch
    ELSE
    LET segment == segments[index + 1]
        newIndex == index + 1
        \* 1. static children: full-segment equality on the node's text
        statics == {c \in {n.children[k] : k \in DOMAIN n.children} :
                       /\ tree.nodes[c].path = segment
                       /\ _search(tree, c, method, segments, newIndex, ps).ok}
        \* 2. the param child
        newParams == Merge(ps, [k \in {tree.nodes[n.paramChild].paramName} |-> segment])
        viaParam == IF n.paramChild # NoNode
                    THEN _search(tree, n.paramChild, method, segments, newIndex, newParams)
                    ELSE NoMatch
        wc == tree.nodes[n.wildcardChild]
    IN
    IF statics # {}
    THEN _search(tree, CHOOSE c \in statics : TRUE, method, segments, newIndex, ps)
    ELSE IF viaParam.ok THEN viaParam
    \* 3. the wildcard child: returned without the constraint loop
    ELSE IF n.wildcardChild # NoNode /\ hasRouteFor(wc, method)
    THEN [ ok |-> TRUE, node |-> n.wildcardChild,
           params |-> Merge(ps, [k \in {wc.paramName} |-> joinSegments(segments, index + 1)]) ]
    ELSE NoMatch

\* RadixTree.find(method, path)
find(tree, method, path) ==
    LET m == _search(tree, RootNode, method, splitSegments(path), 0, EmptyMap)
    IN  IF m.ok /\ hasRouteFor(tree.nodes[m.node], method)
        THEN [ok |-> TRUE, route |-> routeFor(tree.nodes[m.node], method), params |-> m.params]
        ELSE NoMatch

\* ------------------------------------------------------------------ Router
\* A handler function: its identity and its declared parameter count
\* (handler.length).
Handler(hid, arity) == [hid |-> hid, arity |-> arity]

NoTree == [present |-> FALSE, tree |-> NewRadixTree]

\* new Router(options)
Router(prefix, useRadixTree) ==
    [ stack |-> <<>>,
      _prefix |-> prefix,
      _useRadixTree |-> useRadixTree,
      _radixTree |-> IF useRadixTree THEN [present |-> TRUE, tree |-> NewRadixTree]
                     ELSE NoTree ]

\* Router._joinPaths(base, path)
_joinPaths(base, path) ==
    IF base = <<"/">> \/ base = <<>> THEN path
    ELSE IF path = <<"/">> THEN base
    ELSE LET normalizedBase == IF endsWith(base, <<"/">>)
                               THEN sliceTo(base, Len(base) - 1) ELSE base
             normalizedPath == IF startsWith(path, <<"/">>) THEN path
                               ELSE <<"/">> \o path
         IN  normalizedBase \o normalizedPath

\* Router._resolvePath(path)
_resolvePath(r, path) ==
    IF r._prefix = <<>> THEN path ELSE _joinPaths(r._prefix, path)

\* Router._parseConstraints(constraints)
_parseConstraints(constraints) ==
    Constraints([param \in DOMAIN constraints.map |->
        IF constraints.map[param].type = "RegExp"
        THEN ParamConstraint(constraints.map[param], Undefined)
        ELSE ParamConstraint(Undefined, constraints.map[param])])

\* stack.push of one layer per function
RECURSIVE PushLayers(_, _, _, _, _)
PushLayers(stack, path, method, fns, constraints) ==
    IF fns = <<>> THEN stack
    ELSE PushLayers(Append(stack, Layer(path, method, Head(fns), constraints)),
                    path, method, Tail(fns), constraints)

\* Router.use(path, ...handlers); withPath is FALSE for use(fn, ...handlers)
use(r, withPath, path, fns) ==
    LET p == IF withPath THEN _resolvePath(r, path) ELSE <<"/">>
    IN  [r EXCEPT !.stack = PushLayers(r.stack, p, "USE", fns, NoConstraints)]

\* Router.useError(handler)
useError(r, handler) ==
    [r EXCEPT !.stack = Append(r.stack, Layer(<<"/">>, "USE", handler, NoConstraints))]

\* Router.route(method, path, constraints?, ...handlers)
route(r, method, path, constraints, handlers) ==
    LET resolvedPath == _resolvePath(r, path)
        parsedConstraints == IF constraints.defined THEN _parseConstraints(constraints)
                             ELSE NoConstraints
    IN  [r EXCEPT
           !._radixTree = IF r._radixTree.present
                          THEN [present |-> TRUE,
                                tree |-> add(r._radixTree.tree, method, resolvedPath,
                                             handlers, parsedConstraints)]
                          ELSE r._radixTree,
           !.stack = PushLayers(r.stack, resolvedPath, method, handlers, constraints)]

\* One registration call made on a router, as data: what a group callback or
\* the owner of a sub-router does.
UseCall(withPath, path, fns) ==
    [op |-> "use", withPath |-> withPath, path |-> path, fns |-> fns,
     method |-> "USE", constraints |-> NoConstraints]
UseErrorCall(fn) ==
    [op |-> "useError", withPath |-> FALSE, path |-> <<"/">>, fns |-> <<fn>>,
     method |-> "USE", constraints |-> NoConstraints]
RouteCall(method, path, constraints, fns) ==
    [op |-> "route", withPath |-> TRUE, path |-> path, fns |-> fns,
     method |-> method, constraints |-> constraints]

Register(r, call) ==
    CASE call.op = "use" -> use(r, call.withPath, call.path, call.fns)
      [] call.op = "useError" -> useError(r, call.fns[1])
      [] call.op = "route" -> route(r, call.method, call.path, call.constraints, call.fns)

RECURSIVE RegisterAll(_, _)
RegisterAll(r, calls) ==
    IF calls = <<>> THEN r ELSE RegisterAll(Register(r, Head(calls)), Tail(calls))

\* the merge loops of group and mount: one new layer per layer of the
\* sub-router, and one add per non-USE layer when the tree is enabled
RECURSIVE MergeLayers(_, _, _, _)
MergeLayers(r, layers, i, base) ==
    IF i > Len(layers) THEN r
    ELSE LET layer == layers[i]
             fullPath == IF base.join THEN _joinPaths(base.path, layer.path)
                         ELSE layer.path
             parsedConstraints == IF layer.constraints.defined
                                  THEN _parseConstraints(layer.constraints)
                                  ELSE NoConstraints
             r1 == [r EXCEPT
                      !.stack = Append(r.stack, Layer(fullPath, layer.method,
                                                      layer.handler, layer.constraints)),
                      !._radixTree =
                          IF r._radixTree.present /\ layer.method # "USE"
                          THEN [present |-> TRUE,
                                tree |-> add(r._radixTree.tree, layer.method, fullPath,
                                             <<layer.handler>>, parsedConstraints)]
                          ELSE r._radixTree]
         IN  MergeLayers(r1, layers, i + 1, base)

\* Router.group(prefix, callback); calls are the registrations the callback makes
group(r, prefix, calls) ==
    LET subRouter == RegisterAll(Router(_resolvePath(r, prefix), FALSE), calls)
    IN  MergeLayers(r, subRouter.stack, 1, [join |-> FALSE, path |-> <<>>])

\* Router.mount(path, router)
mount(r, path, router) ==
    MergeLayers(r, router.stack, 1, [join |-> TRUE, path |-> _resolvePath(r, path)])

\* ---------------------------------------------------------------- dispatch
\* The JavaScript run of Router.handle: async function activations (frames),
\* the synchronous call stack, and the microtask queue that resumes an
\* activation suspended at an await once the awaited promise has settled.
\* Error values are identified by the handler that raised them (its hid > 0);
\* 0 stands for undefined (no argument) and Null for the null that
\* executeMiddleware passes to a 4-parameter handler.
Null == -1
Truthy(err) == err > 0

MaxRequests == 2
Requests == 1..MaxRequests

VARIABLES
    router,     \* the Router under construction, then serving
    nextHid,    \* identity of the next handler function created
    serving,    \* registration is over: a request has been dispatched
    reqs,       \* per request: the Request object and the closure of handle
    frames,     \* every activation created so far, by frame id
    callstack,  \* frame ids of the running synchronous call chain
    mq,         \* microtask queue: frame ids to resume, first in first out
    trace,      \* per request: the handler calls, layer tests and out calls
    response,   \* the ResponseImpl of a request and the calls that write to it
    engine      \* a MiddlewareEngine.execute run and its timeout races

vars == <<router, nextHid, serving, reqs, frames, callstack, mq, trace, response, engine>>

\* the variables of Router, its requests and the activations serving them
routerVars == <<router, nextHid, serving, reqs, frames, callstack, mq, trace>>

\* new ResponseImpl(resolve, app): status 200, no header, no body, not sent.
\* `resolved` lists the Response objects handed to _resolve, `calls` the
\* activations of done and res.send that write to the object.
NewResponse ==
    [ _status |-> 200, contentType |-> "none", _body |-> "null", _sent |-> FALSE,
      resolved |-> <<>>, calls |-> <<>> ]

\* a MiddlewareEngine before execute is called: `acts` holds one record per
\* handler invocation, `doneCalls` the arguments `done` was called with
NewEngine ==
    [ started |-> FALSE, middlewares |-> <<>>, idx |-> 0, currentError |-> "null",
      acts |-> <<>>, doneCalls |-> <<>> ]

IdleRequest ==
    [ active |-> FALSE, method |-> "GET", path |-> <<>>, baseUrl |-> <<>>,
      entryPath |-> <<>>,
      params |-> EmptyMap, idx |-> 0, middlewareIdx |-> 0, routeIdx |-> 0,
      match |-> NoMatch, pending |-> 0, own |-> FALSE, late |-> FALSE ]

Frame(r, kind, err) ==
    [ req |-> r, kind |-> kind, pc |-> "entry", err |-> err,
      pos |-> 0, hid |-> 0, arity |-> 0, cont |-> "none", beh |-> "none",
      originalPath |-> <<>>, originalBaseUrl |-> <<>>,
      callee |-> 0, status |-> "running", value |-> 0 ]

\* the promise an activation's promise has been resolved with (return next(err))
RECURSIVE Target(_, _)
Target(fs, f) ==
    IF f # 0 /\ fs[f].status = "following" THEN Target(fs, fs[f].callee) ELSE f

\* an awaited value that lets the awaiting activation continue: a plain value,
\* or a promise that has settled
Settled(fs, f) ==
    Target(fs, f) = 0
        \/ fs[Target(fs, f)].status \in {"returned", "fulfilled", "rejected"}

RECURSIVE Ascending(_)
Ascending(S) == IF S = {} THEN <<>> ELSE <<Min(S)>> \o Ascending(S \ {Min(S)})

Loop == [frames |-> frames, callstack |-> callstack, mq |-> mq]
SetLoop(M) == frames' = M.frames /\ callstack' = M.callstack /\ mq' = M.mq

\* a call: the callee's activation starts running on top of the caller
Push(M, fr) ==
    [M EXCEPT !.frames = Append(@, fr), !.callstack = Append(@, Len(M.frames) + 1)]
\* the running activation leaves the call stack
Pop(M) == [M EXCEPT !.callstack = SubSeq(@, 1, Len(@) - 1)]
\* the running activation f ends with `status`; the activations awaiting its
\* promise are queued as microtasks
Finish(M, f, status, value) ==
    LET fs == [M.frames EXCEPT ![f].status = status, ![f].value = value]
        waiters == {w \in 1..Len(fs) :
                       fs[w].status = "suspended" /\ Target(fs, fs[w].callee) = f}
    IN  [ frames |-> fs,
          callstack |-> SubSeq(M.callstack, 1, Len(M.callstack) - 1),
          mq |-> M.mq \o Ascending(waiters) ]
\* the running activation f does `await <the value callee returned>`
Suspend(M, f) ==
    LET fs == [M.frames EXCEPT ![f].status = "suspended"]
    IN  [ frames |-> fs,
          callstack |-> SubSeq(M.callstack, 1, Len(M.callstack) - 1),
          mq |-> IF Settled(fs, fs[f].callee) THEN Append(M.mq, f) ELSE M.mq ]
\* the microtask at the head of the queue runs
Resume(M) ==
    [ frames |-> [M.frames EXCEPT ![Head(M.mq)].status = "running"],
      callstack |-> <<Head(M.mq)>>,
      mq |-> Tail(M.mq) ]

Top == callstack[Len(callstack)]
Running(kind, pc) ==
    /\ callstack # <<>>
    /\ frames[Top].kind = kind
    /\ frames[Top].pc = pc
Resuming(kind) ==
    /\ callstack = <<>>
    /\ mq # <<>>
    /\ frames[Head(mq)].kind = kind

\* trace events
TestEvent(pos, rq) ==
    [ev |-> "test", pos |-> pos, hid |-> 0, err |-> 0, beh |-> "none",
     arity |-> 0,
     path |-> rq.path, baseUrl |-> rq.baseUrl, params |-> rq.params,
     pending |-> rq.pending]
CallEvent(fr, beh, rq) ==
    [ev |-> "call", pos |-> fr.pos, hid |-> fr.hid, err |-> fr.err, beh |-> beh,
     arity |-> fr.arity,
     path |-> rq.path, baseUrl |-> rq.baseUrl, params |-> rq.params,
     pending |-> rq.pending]
OutEvent(err, rq) ==
    [ev |-> "out", pos |-> 0, hid |-> 0, err |-> err, beh |-> "none",
     arity |-> 0,
     path |-> rq.path, baseUrl |-> rq.baseUrl, params |-> rq.params,
     pending |-> rq.pending]

\* a boundary callback that reports every request on the first one
outToFirst(r, err) == trace' = [trace EXCEPT ![1] = Append(@, OutEvent(err, reqs[r]))]

\* the boundary callback out(err)
out(r, err) == trace' = [trace EXCEPT ![r] = Append(@, OutEvent(err, reqs[r]))]

\* the events of one kind, in order
Events(r, kind) == SelectSeq(trace[r], LAMBDA e : e.ev = kind)
Calls(r) == Events(r, "call")
Outs(r) == Events(r, "out")

\* "Handle path stripping for USE": req.baseUrl and req.path after the strip
Stripped(rq, layer) ==
    LET removed == IF layer.method = "USE" THEN layer.path ELSE <<>>
        rest == substring(rq.path, Len(removed))
    IN  IF removed # <<"/">> /\ removed # <<>>
        THEN [rq EXCEPT !.baseUrl = rq.baseUrl \o removed,
                        !.path = IF rest = <<>> THEN <<"/">> ELSE rest]
        ELSE rq

\* stack.filter(layer => layer.method === "USE"), as positions in the stack
middlewareStack == SelectSeq([i \in 1..Len(router.stack) |-> i],
                             LAMBDA i : router.stack[i].method = "USE")

\* position in the stack of the layer holding handler hid (0 when there is none)
PosOf(hid) ==
    LET at == {i \in 1..Len(router.stack) : router.stack[i].handler.hid = hid}
    IN  IF at = {} THEN 0 ELSE Min(at)

\* ------------------------------------------------- Router.handle, entry
\* handle(req, res, out) up to its first call: the trie lookup, then either
\* `return executeMiddleware()` or `await next()`.
\* `radixTree` is the _radixTree of the router handling the request.
handleOn(radixTree, r, method, path, idle) ==
    /\ callstack = <<>>
    /\ mq = <<>>
    /\ ~reqs[r].active
    /\ LET m == IF radixTree.present
                THEN find(radixTree.tree, method, path) ELSE NoMatch
           M1 == Push(Loop, [Frame(r, "handle", 0) EXCEPT
                                !.pc = IF m.ok THEN "tail" ELSE "awaitCall",
                                !.callee = Len(frames) + 2])
           M2 == Push(M1, Frame(r, IF m.ok THEN "executeMiddleware" ELSE "next", 0))
       IN  /\ reqs' = [reqs EXCEPT ![r] =
                  [idle EXCEPT
                      !.active = TRUE, !.method = method, !.path = path,
                      !.entryPath = path,
                      !.params = IF m.ok THEN m.params ELSE EmptyMap,
                      !.match = m]]
           /\ SetLoop(M2)
    /\ serving' = TRUE
    /\ UNCHANGED <<response, engine, router, nextHid, trace>>

handleFrom(r, method, path, idle) == handleOn(router._radixTree, r, method, path, idle)

\* Router.handle(req, res, out) for a fresh request
handle(r, method, path) == handleFrom(r, method, path, IdleRequest)

\* `return f(...)` in an async function: the caller's promise is resolved with
\* the promise the callee returned
ReturnTail ==
    /\ callstack # <<>>
    /\ frames[Top].pc = "tail"
    /\ SetLoop(Finish(Loop, Top, "following", 0))
    /\ UNCHANGED <<response, engine, router, nextHid, serving, reqs, trace>>

\* `await f(...)`: the activation is suspended until the value has settled
Await ==
    /\ callstack # <<>>
    /\ frames[Top].pc \in {"awaitCall", "awaitCatch"}
    /\ frames[frames[Top].callee].status # "threw"
    /\ SetLoop(Suspend(Loop, Top))
    /\ UNCHANGED <<response, engine, router, nextHid, serving, reqs, trace>>

\* handle resumes after `await next()` and returns
HandleReturn ==
    /\ Resuming("handle")
    /\ SetLoop(Finish(Resume(Loop), Head(mq), "fulfilled", 0))
    /\ UNCHANGED <<response, engine, router, nextHid, serving, reqs, trace>>

\* a variant of the exhaustion step that returns without invoking out
NextExhaustedSilent ==
    /\ Running("next", "entry")
    /\ LET fr == frames[Top] IN
       /\ reqs[fr.req].idx >= Len(router.stack)
       /\ SetLoop(Finish(Loop, Top, "fulfilled", 0))
    /\ UNCHANGED <<response, engine, router, nextHid, serving, reqs, trace>>

\* ------------------------------------------------ the linear path: next
\* if (idx >= stack.length) return out(err)
NextExhausted ==
    /\ Running("next", "entry")
    /\ LET fr == frames[Top] IN
       /\ reqs[fr.req].idx >= Len(router.stack)
       /\ out(fr.req, fr.err)
       /\ SetLoop(Finish(Loop, Top, "fulfilled", 0))
    /\ UNCHANGED <<response, engine, router, nextHid, serving, reqs>>

\* the layer does not match the path, or its verb is not the request's:
\* return next(err)
NextSkip ==
    /\ Running("next", "entry")
    /\ LET fr == frames[Top]
           rq == reqs[fr.req]
       IN
       /\ rq.idx < Len(router.stack)
       /\ LET layer == router.stack[rq.idx + 1] IN
          \/ ~match(layer, rq.path)
          \/ (layer.method # "USE" /\ layer.method # rq.method)
       /\ reqs' = [reqs EXCEPT ![fr.req].idx = rq.idx + 1]
       /\ trace' = [trace EXCEPT ![fr.req] = Append(@, TestEvent(rq.idx + 1, rq))]
       /\ SetLoop(Push([Loop EXCEPT !.frames[Top].pc = "tail",
                                    !.frames[Top].callee = Len(frames) + 1],
                       Frame(fr.req, "next", fr.err)))
    /\ UNCHANGED <<response, engine, router, nextHid, serving>>

\* the layer matches but a captured parameter fails its constraint:
\* return out()
NextConstraintFail ==
    /\ Running("next", "entry")
    /\ LET fr == frames[Top]
           rq == reqs[fr.req]
       IN
       /\ rq.idx < Len(router.stack)
       /\ LET layer == router.stack[rq.idx + 1] IN
          /\ match(layer, rq.path)
          /\ (layer.method = "USE" \/ layer.method = rq.method)
          /\ layer.constraints.defined
          /\ ~validateParams(layer, params(layer, rq.path))
       /\ reqs' = [reqs EXCEPT ![fr.req].idx = rq.idx + 1]
       /\ trace' = [trace EXCEPT ![fr.req] =
              Append(Append(@, TestEvent(rq.idx + 1, rq)), OutEvent(0, rq))]
       /\ SetLoop(Finish(Loop, Top, "fulfilled", 0))
    /\ UNCHANGED <<response, engine, router, nextHid, serving>>

\* the layer is entered: the prefix of a USE layer is stripped, the layer's
\* parameters are merged, and by arity and error mode either the handler is
\* called or the layer is passed over with next(err) / next()
NextEnter ==
    /\ Running("next", "entry")
    /\ LET fr == frames[Top]
           rq == reqs[fr.req]
       IN
       /\ rq.idx < Len(router.stack)
       /\ LET layer == router.stack[rq.idx + 1]
              stripped == Stripped(rq, layer)
              callsHandler == IF Truthy(fr.err) THEN layer.handler.arity = 4
                              ELSE layer.handler.arity < 4
              callee == IF callsHandler
                        THEN [Frame(fr.req, "handler", fr.err) EXCEPT
                                 !.pos = rq.idx + 1,
                                 !.hid = layer.handler.hid,
                                 !.arity = layer.handler.arity,
                                 !.cont = "next"]
                        ELSE Frame(fr.req, "next", IF Truthy(fr.err) THEN fr.err ELSE 0)
          IN
          /\ match(layer, rq.path)
          /\ (layer.method = "USE" \/ layer.method = rq.method)
          /\ layer.constraints.defined => validateParams(layer, params(layer, rq.path))
          /\ reqs' = [reqs EXCEPT ![fr.req] =
                 [stripped EXCEPT !.idx = rq.idx + 1,
                                  !.params = Merge(rq.params, params(layer, rq.path))]]
          /\ trace' = [trace EXCEPT ![fr.req] = Append(@, TestEvent(rq.idx + 1, rq))]
          /\ SetLoop(Push([Loop EXCEPT !.frames[Top].pc = "awaitCall",
                                       !.frames[Top].pos = rq.idx + 1,
                                       !.frames[Top].originalPath = rq.path,
                                       !.frames[Top].originalBaseUrl = rq.baseUrl,
                                       !.frames[Top].callee = Len(frames) + 1],
                          callee))
    /\ UNCHANGED <<response, engine, router, nextHid, serving>>

\* catch (e) { await next(e) } for a handler that threw synchronously
NextCatch ==
    /\ Running("next", "awaitCall")
    /\ LET fr == frames[Top]
           thrown == frames[fr.callee]
       IN
       /\ thrown.status = "threw"
       /\ SetLoop(Push([Loop EXCEPT !.frames[Top].pc = "awaitCatch",
                                    !.frames[Top].callee = Len(frames) + 1],
                       Frame(fr.req, "next", thrown.value)))
    /\ UNCHANGED <<response, engine, router, nextHid, serving, reqs, trace>>

\* the awaited handler promise was rejected: catch (e) { await next(e) }
NextCatchRejected ==
    /\ Resuming("next")
    /\ LET f == Head(mq)
           fr == frames[f]
           awaited == frames[Target(frames, fr.callee)]
       IN
       /\ fr.pc = "awaitCall"
       /\ awaited.status = "rejected"
       /\ SetLoop(Push([Resume(Loop) EXCEPT !.frames[f].pc = "awaitCatch",
                                            !.frames[f].callee = Len(frames) + 1],
                       Frame(fr.req, "next", awaited.value)))
    /\ UNCHANGED <<response, engine, router, nextHid, serving, reqs, trace>>

\* finally { req.path = originalPath; req.baseUrl = originalBaseUrl }
NextFinally ==
    /\ Resuming("next")
    /\ LET f == Head(mq)
           fr == frames[f]
           awaited == frames[Target(frames, fr.callee)]
       IN
       /\ fr.pc = "awaitCatch" \/ awaited.status # "rejected"
       /\ reqs' = [reqs EXCEPT ![fr.req].path = fr.originalPath,
                               ![fr.req].baseUrl = fr.originalBaseUrl]
       /\ SetLoop(Finish(Resume(Loop), f, "fulfilled", 0))
    /\ UNCHANGED <<response, engine, router, nextHid, serving, trace>>

\* ------------------------------------- the radix-tree path: executeMiddleware
\* if (err) return out(err)
ExecMwError ==
    /\ Running("executeMiddleware", "entry")
    /\ LET fr == frames[Top] IN
       /\ Truthy(fr.err)
       /\ out(fr.req, fr.err)
       /\ SetLoop(Finish(Loop, Top, "fulfilled", 0))
    /\ UNCHANGED <<response, engine, router, nextHid, serving, reqs>>

\* all middleware executed: return executeRouteHandlers()
ExecMwRoutes ==
    /\ Running("executeMiddleware", "entry")
    /\ LET fr == frames[Top] IN
       /\ ~Truthy(fr.err)
       /\ reqs[fr.req].middlewareIdx >= Len(middlewareStack)
       /\ SetLoop(Push([Loop EXCEPT !.frames[Top].pc = "tail",
                                    !.frames[Top].callee = Len(frames) + 1],
                       Frame(fr.req, "executeRouteHandlers", 0)))
    /\ UNCHANGED <<response, engine, router, nextHid, serving, reqs, trace>>

\* if (!layer.match(path)) return executeMiddleware(err)
ExecMwSkip ==
    /\ Running("executeMiddleware", "entry")
    /\ LET fr == frames[Top]
           rq == reqs[fr.req]
       IN
       /\ ~Truthy(fr.err)
       /\ rq.middlewareIdx < Len(middlewareStack)
       /\ ~match(router.stack[middlewareStack[rq.middlewareIdx + 1]], rq.path)
       /\ reqs' = [reqs EXCEPT ![fr.req].middlewareIdx = rq.middlewareIdx + 1]
       /\ trace' = [trace EXCEPT ![fr.req] =
              Append(@, TestEvent(middlewareStack[rq.middlewareIdx + 1], rq))]
       /\ SetLoop(Push([Loop EXCEPT !.frames[Top].pc = "tail",
                                    !.frames[Top].callee = Len(frames) + 1],
                       Frame(fr.req, "executeMiddleware", fr.err)))
    /\ UNCHANGED <<response, engine, router, nextHid, serving>>

\* the USE layer matches: strip, merge the parameters, call the handler; a
\* 4-parameter handler is called with null as its error
ExecMwEnter ==
    /\ Running("executeMiddleware", "entry")
    /\ LET fr == frames[Top]
           rq == reqs[fr.req]
       IN
       /\ ~Truthy(fr.err)
       /\ rq.middlewareIdx < Len(middlewareStack)
       /\ LET pos == middlewareStack[rq.middlewareIdx + 1]
              layer == router.stack[pos]
              stripped == Stripped(rq, layer)
          IN
          /\ match(layer, rq.path)
          /\ reqs' = [reqs EXCEPT ![fr.req] =
                 [stripped EXCEPT !.middlewareIdx = rq.middlewareIdx + 1,
                                  !.params = Merge(rq.params, params(layer, rq.path))]]
          /\ trace' = [trace EXCEPT ![fr.req] = Append(@, TestEvent(pos, rq))]
          /\ SetLoop(Push([Loop EXCEPT !.frames[Top].pc = "awaitCall",
                                       !.frames[Top].pos = pos,
                                       !.frames[Top].originalPath = rq.path,
                                       !.frames[Top].originalBaseUrl = rq.baseUrl,
                                       !.frames[Top].callee = Len(frames) + 1],
                          [Frame(fr.req, "handler",
                                 IF layer.handler.arity = 4 THEN Null ELSE 0) EXCEPT
                              !.pos = pos,
                              !.hid = layer.handler.hid,
                              !.arity = layer.handler.arity,
                              !.cont = "executeMiddleware"]))
    /\ UNCHANGED <<response, engine, router, nextHid, serving>>

\* catch (e) { restore; return out(e) }: the handler threw synchronously
ExecMwCatch ==
    /\ Running("executeMiddleware", "awaitCall")
    /\ LET fr == frames[Top]
           thrown == frames[fr.callee]
           restored == [reqs[fr.req] EXCEPT !.path = fr.originalPath,
                                            !.baseUrl = fr.originalBaseUrl]
       IN
       /\ thrown.status = "threw"
       /\ reqs' = [reqs EXCEPT ![fr.req] = restored]
       /\ trace' = [trace EXCEPT ![fr.req] = Append(@, OutEvent(thrown.value, restored))]
       /\ SetLoop(Finish(Loop, Top, "fulfilled", 0))
    /\ UNCHANGED <<response, engine, router, nextHid, serving>>

\* after the await: the rejection is caught as above, otherwise the path and
\* base are restored
ExecMwResume ==
    /\ Resuming("executeMiddleware")
    /\ LET f == Head(mq)
           fr == frames[f]
           awaited == frames[Target(frames, fr.callee)]
           restored == [reqs[fr.req] EXCEPT !.path = fr.originalPath,
                                            !.baseUrl = fr.originalBaseUrl]
       IN
       /\ reqs' = [reqs EXCEPT ![fr.req] = restored]
       /\ trace' = IF awaited.status = "rejected"
                   THEN [trace EXCEPT ![fr.req] =
                            Append(@, OutEvent(awaited.value, restored))]
                   ELSE trace
       /\ SetLoop(Finish(Resume(Loop), f, "fulfilled", 0))
    /\ UNCHANGED <<response, engine, router, nextHid, serving>>

\* --------------------------------- the radix-tree path: executeRouteHandlers
\* if (err) return out(err)
ExecRtError ==
    /\ Running("executeRouteHandlers", "entry")
    /\ LET fr == frames[Top] IN
       /\ Truthy(fr.err)
       /\ out(fr.req, fr.err)
       /\ SetLoop(Finish(Loop, Top, "fulfilled", 0))
    /\ UNCHANGED <<response, engine, router, nextHid, serving, reqs>>

\* if (routeIdx >= match.route.handlers.length) return out()
ExecRtDone ==
    /\ Running("executeRouteHandlers", "entry")
    /\ LET fr == frames[Top]
           rq == reqs[fr.req]
       IN
       /\ ~Truthy(fr.err)
       /\ rq.routeIdx >= Len(rq.match.route.handlers)
       /\ out(fr.req, 0)
       /\ SetLoop(Finish(Loop, Top, "fulfilled", 0))
    /\ UNCHANGED <<response, engine, router, nextHid, serving, reqs>>

\* await handler(req, res, executeRouteHandlers)
ExecRtCall ==
    /\ Running("executeRouteHandlers", "entry")
    /\ LET fr == frames[Top]
           rq == reqs[fr.req]
       IN
       /\ ~Truthy(fr.err)
       /\ rq.routeIdx < Len(rq.match.route.handlers)
       /\ LET handler == rq.match.route.handlers[rq.routeIdx + 1] IN
          /\ reqs' = [reqs EXCEPT ![fr.req].routeIdx = rq.routeIdx + 1]
          /\ SetLoop(Push([Loop EXCEPT !.frames[Top].pc = "awaitCall",
                                       !.frames[Top].callee = Len(frames) + 1],
                          [Frame(fr.req, "handler", 0) EXCEPT
                              !.pos = PosOf(handler.hid),
                              !.hid = handler.hid,
                              !.arity = handler.arity,
                              !.cont = "executeRouteHandlers"]))
    /\ UNCHANGED <<response, engine, router, nextHid, serving, trace>>

\* catch (e) { return out(e) }: the handler threw synchronously
ExecRtCatch ==
    /\ Running("executeRouteHandlers", "awaitCall")
    /\ LET fr == frames[Top]
           thrown == frames[fr.callee]
       IN
       /\ thrown.status = "threw"
       /\ out(fr.req, thrown.value)
       /\ SetLoop(Finish(Loop, Top, "fulfilled", 0))
    /\ UNCHANGED <<response, engine, router, nextHid, serving, reqs>>

\* after the await: a rejection is caught as above
ExecRtResume ==
    /\ Resuming("executeRouteHandlers")
    /\ LET f == Head(mq)
           fr == frames[f]
           awaited == frames[Target(frames, fr.callee)]
       IN
       /\ trace' = IF awaited.status = "rejected"
                   THEN [trace EXCEPT ![fr.req] =
                            Append(@, OutEvent(awaited.value, reqs[fr.req]))]
                   ELSE trace
       /\ SetLoop(Finish(Resume(Loop), f, "fulfilled", 0))
    /\ UNCHANGED <<response, engine, router, nextHid, serving, reqs>>

\* ---------------------------------------------------------------- handlers
\* What a handler function does with its continuation.  Each is a handler a
\* user can register:
\*   next       (req, res, next) => { next() }
\*   nextErr    (req, res, next) => { next(e) }
\*   throw      (req, res, next) => { throw e }
\*   end        (req, res, next) => { res.send(...) }
\*   asyncNext  async (req, res, next) => { await io(); next() }
\*   asyncNextErr, asyncThrow: the same after an await
Behaviours == {"next", "nextErr", "throw", "end", "asyncNext", "asyncNextErr", "asyncThrow"}
AsyncBehaviours == {"asyncNext", "asyncNextErr", "asyncThrow"}

\* the error state of the request as the handler's signal leaves it: raised by
\* next(e) or a throw; cleared when a 4-parameter handler that received an
\* error continues with next()
PendingAfter(pending, fr, signal) ==
    IF signal > 0 THEN signal
    ELSE IF fr.arity = 4 /\ Truthy(fr.err) THEN 0
    ELSE pending

\* What the body of a handler does is an input of the dispatch.  Request 1
\* draws it freely.  Request 2 is the twin of request 1: the same handlers,
\* except that a body that threw (or rejected) calls next(e) with the same
\* value instead.  A request dispatched with `own` set draws its bodies
\* freely as well.
Mirror(beh) ==
    IF beh = "throw" THEN "nextErr"
    ELSE IF beh = "asyncThrow" THEN "asyncNextErr"
    ELSE beh
BodyOf(fr, beh) ==
    \/ fr.req = 1
    \/ reqs[fr.req].own
    \/ \A i \in 1..Len(Calls(1)) :
          Calls(1)[i].hid = fr.hid => beh = Mirror(Calls(1)[i].beh)

\* the handler calls its continuation: next(), or next(e) with its own error
CallContinuation(M, f, err) ==
    Push([M EXCEPT !.frames[f].pc = "afterNext",
                   !.frames[f].callee = Len(M.frames) + 1],
         Frame(M.frames[f].req, M.frames[f].cont, err))

\* the body of a synchronous handler, up to the call of its continuation
HandlerNext ==
    /\ Running("handler", "entry")
    /\ BodyOf(frames[Top], "next")
    /\ LET fr == frames[Top] IN
       /\ trace' = [trace EXCEPT ![fr.req] = Append(@, CallEvent(fr, "next", reqs[fr.req]))]
       /\ reqs' = [reqs EXCEPT ![fr.req].pending = PendingAfter(@, fr, 0)]
       /\ SetLoop(CallContinuation([Loop EXCEPT !.frames[Top].beh = "next"], Top, 0))
    /\ UNCHANGED <<response, engine, router, nextHid, serving>>

HandlerNextErr ==
    /\ Running("handler", "entry")
    /\ BodyOf(frames[Top], "nextErr")
    /\ LET fr == frames[Top] IN
       /\ trace' = [trace EXCEPT ![fr.req] = Append(@, CallEvent(fr, "nextErr", reqs[fr.req]))]
       /\ reqs' = [reqs EXCEPT ![fr.req].pending = PendingAfter(@, fr, fr.hid)]
       /\ SetLoop(CallContinuation([Loop EXCEPT !.frames[Top].beh = "nextErr"], Top, fr.hid))
    /\ UNCHANGED <<response, engine, router, nextHid, serving>>

HandlerThrow ==
    /\ Running("handler", "entry")
    /\ BodyOf(frames[Top], "throw")
    /\ LET fr == frames[Top] IN
       /\ trace' = [trace EXCEPT ![fr.req] = Append(@, CallEvent(fr, "throw", reqs[fr.req]))]
       /\ reqs' = [reqs EXCEPT ![fr.req].pending = PendingAfter(@, fr, fr.hid)]
       /\ SetLoop(Finish([Loop EXCEPT !.frames[Top].beh = "throw"], Top, "threw", fr.hid))
    /\ UNCHANGED <<response, engine, router, nextHid, serving>>

HandlerEnd ==
    /\ Running("handler", "entry")
    /\ BodyOf(frames[Top], "end")
    /\ LET fr == frames[Top] IN
       /\ trace' = [trace EXCEPT ![fr.req] = Append(@, CallEvent(fr, "end", reqs[fr.req]))]
       /\ SetLoop(Finish([Loop EXCEPT !.frames[Top].beh = "end"], Top, "returned", 0))
    /\ UNCHANGED <<response, engine, router, nextHid, serving, reqs>>

\* an async handler runs to its first await and returns a pending promise
HandlerAwaitIo(beh) ==
    /\ Running("handler", "entry")
    /\ BodyOf(frames[Top], beh)
    /\ LET fr == frames[Top] IN
       /\ trace' = [trace EXCEPT ![fr.req] = Append(@, CallEvent(fr, beh, reqs[fr.req]))]
       /\ SetLoop(Pop([Loop EXCEPT !.frames[Top].beh = beh,
                                   !.frames[Top].status = "io"]))
    /\ UNCHANGED <<response, engine, router, nextHid, serving, reqs>>

\* the awaited I/O of an async handler completes (a macrotask: nothing is
\* running and the microtask queue is empty); the handler goes on to call its
\* continuation or to throw
IoComplete(h) ==
    /\ callstack = <<>>
    /\ mq = <<>>
    /\ h \in 1..Len(frames)
    /\ frames[h].status = "io"
    /\ LET fr == frames[h]
           M == [Loop EXCEPT !.frames[h].status = "running", !.callstack = <<h>>]
           signal == IF fr.beh = "asyncNext" THEN 0 ELSE fr.hid
       IN
       /\ reqs' = [reqs EXCEPT ![fr.req].pending = PendingAfter(@, fr, signal)]
       /\ IF fr.beh = "asyncThrow"
          THEN SetLoop(Finish(M, h, "rejected", fr.hid))
          ELSE SetLoop(CallContinuation(M, h, signal))
    /\ UNCHANGED <<response, engine, router, nextHid, serving, trace>>

\* the continuation has returned; so does the handler
HandlerReturn ==
    /\ Running("handler", "afterNext")
    /\ frames[Top].beh # "nextThrow"
    /\ SetLoop(Finish(Loop, Top,
                      IF frames[Top].beh \in AsyncBehaviours THEN "fulfilled"
                      ELSE "returned", 0))
    /\ UNCHANGED <<response, engine, router, nextHid, serving, reqs, trace>>

\* ------------------------------------------------------------ registration
\* The paths, constraint maps and requests the model registers and sends.
P_slash == <<"/">>
P_a == <<"/", "a">>
P_ax == <<"/", "a", "/", "x">>
P_x == <<"/", "x">>
P_item == <<"/", "i", "/", ":", "i", "d">>
P_files == <<"/", "f", "/", "*", "n">>
N_id == <<"i", "d">>
N_n == <<"n">>

DigitsOn(name) == Constraints([k \in {name} |-> DigitsPattern])

RouteMenu ==
    { [method |-> "GET", path |-> P_ax, constraints |-> NoConstraints],
      [method |-> "POST", path |-> P_ax, constraints |-> NoConstraints],
      [method |-> "GET", path |-> P_item, constraints |-> DigitsOn(N_id)],
      [method |-> "GET", path |-> P_files, constraints |-> DigitsOn(N_n)] }

RequestPaths ==
    { <<"/", "a", "/", "x">>,
      <<"/", "i", "/", "7">>,
      <<"/", "i", "/", "b">>,
      <<"/", "f", "/", "b">> }

Registering(n) == ~serving /\ Len(router.stack) + n <= MaxLayers

\* router.use(fn)
RegUse ==
    /\ Registering(1)
    /\ router' = use(router, FALSE, <<>>, <<Handler(nextHid, 3)>>)
    /\ nextHid' = nextHid + 1
    /\ UNCHANGED <<response, engine, serving, reqs, frames, callstack, mq, trace>>

\* router.use("/a", fn)
RegUsePath ==
    /\ Registering(1)
    /\ router' = use(router, TRUE, P_a, <<Handler(nextHid, 3)>>)
    /\ nextHid' = nextHid + 1
    /\ UNCHANGED <<response, engine, serving, reqs, frames, callstack, mq, trace>>

\* router.useError((err, req, res, next) => ...)
RegUseError ==
    /\ Registering(1)
    /\ router' = useError(router, Handler(nextHid, 4))
    /\ nextHid' = nextHid + 1
    /\ UNCHANGED <<response, engine, serving, reqs, frames, callstack, mq, trace>>

\* router.route(method, path, constraints?, fn)
RegRoute ==
    /\ Registering(1)
    /\ \E rt \in RouteMenu :
          router' = route(router, rt.method, rt.path, rt.constraints,
                          <<Handler(nextHid, 3)>>)
    /\ nextHid' = nextHid + 1
    /\ UNCHANGED <<response, engine, serving, reqs, frames, callstack, mq, trace>>

\* router.group("/a", g => { g.use(fn); g.get("/x", fn) })
RegGroup ==
    /\ Registering(2)
    /\ router' = group(router, P_a,
                       << UseCall(FALSE, <<>>, <<Handler(nextHid, 3)>>),
                          RouteCall("GET", P_x, NoConstraints,
                                    <<Handler(nextHid + 1, 3)>>) >>)
    /\ nextHid' = nextHid + 2
    /\ UNCHANGED <<response, engine, serving, reqs, frames, callstack, mq, trace>>

\* router.mount("/a", sub) with sub = new Router().get("/x", fn)
RegMount ==
    /\ Registering(1)
    /\ router' = mount(router, P_a,
                       route(Router(<<>>, FALSE), "GET", P_x, NoConstraints,
                             <<Handler(nextHid, 3)>>))
    /\ nextHid' = nextHid + 1
    /\ UNCHANGED <<response, engine, serving, reqs, frames, callstack, mq, trace>>

\* a GET request arrives and is dispatched
Dispatch(r) ==
    \E path \in RequestPaths : handle(r, "GET", path)

Init ==
    /\ router \in {Router(<<>>, FALSE), Router(<<>>, TRUE)}
    /\ nextHid = 1
    /\ serving = FALSE
    /\ reqs = [r \in Requests |-> IdleRequest]
    /\ frames = <<>>
    /\ callstack = <<>>
    /\ mq = <<>>
    /\ trace = [r \in Requests |-> <<>>]
    /\ response = NewResponse
    /\ engine = NewEngine

Next ==
    \/ RegUse \/ RegUsePath \/ RegUseError \/ RegRoute \/ RegGroup \/ RegMount
    \/ Dispatch(1)
    \/ ReturnTail \/ Await \/ HandleReturn
    \/ NextExhausted \/ NextSkip \/ NextConstraintFail \/ NextEnter
    \/ NextCatch \/ NextCatchRejected \/ NextFinally
    \/ ExecMwError \/ ExecMwRoutes \/ ExecMwSkip \/ ExecMwEnter
    \/ ExecMwCatch \/ ExecMwResume
    \/ ExecRtError \/ ExecRtDone \/ ExecRtCall \/ ExecRtCatch \/ ExecRtResume
    \/ HandlerNext \/ HandlerNextErr \/ HandlerThrow \/ HandlerEnd
    \/ (\E beh \in AsyncBehaviours : HandlerAwaitIo(beh))
    \/ (\E h \in 1..Len(frames) : IoComplete(h))
    \/ HandlerReturn

Spec == Init /\ [][Next]_vars

\* ---------------------------------------------------------------- claims
\* The dispatch of request r has quiesced: nothing runs, nothing is queued,
\* and every activation made for it has ended.
Quiesced(r) ==
    /\ reqs[r].active
    /\ callstack = <<>>
    /\ mq = <<>>
    /\ \A f \in 1..Len(frames) :
          frames[f].req = r =>
              frames[f].status \in {"returned", "threw", "fulfilled", "rejected", "following"}

\* the twin of request 1 is dispatched once request 1 has quiesced with a
\* handler that threw: the same verb and path, the same registrations
DispatchTwin ==
    /\ Quiesced(1)
    /\ \E i \in 1..Len(Calls(1)) : Calls(1)[i].beh \in {"throw", "asyncThrow"}
    /\ handle(2, reqs[1].method, reqs[1].entryPath)

NextTwin == Next \/ DispatchTwin

SpecTwin == Init /\ [][NextTwin]_vars

\* every handler invoked so far passes control on: it calls its continuation
\* once, or throws without calling it
AllPassOn(r) == \A i \in 1..Len(Calls(r)) : Calls(r)[i].beh # "end"

\* the layer matches the request as it entered the dispatch: path, verb and
\* constraints
MatchesRequest(layer, rq) ==
    /\ match(layer, rq.entryPath)
    /\ (layer.method = "USE" \/ layer.method = rq.method)
    /\ validateParams(layer, params(layer, rq.entryPath))

\* C1: when every invoked handler passes control on, out is invoked exactly
\* once, with no argument when no error is pending and otherwise with the
\* pending error.
C1_OutExactlyOnce ==
    \A r \in Requests :
        (Quiesced(r) /\ AllPassOn(r)) =>
            /\ Len(Outs(r)) = 1
            /\ Outs(r)[1].err = Outs(r)[1].pending

\* The part of C1 the dispatch keeps: out is invoked exactly once.
C1_OnceOnly ==
    \A r \in Requests :
        (Quiesced(r) /\ AllPassOn(r)) => Len(Outs(r)) = 1

\* C2: handlers invoked for one request run in registration order: a handler
\* whose layer is earlier in the stack is invoked first.
C2_RegistrationOrder ==
    \A r \in Requests : \A i, j \in 1..Len(Calls(r)) :
        i < j => Calls(r)[i].pos < Calls(r)[j].pos

\* C3: after a normal handler calls next(err), the next handler invoked is the
\* first later-registered matching 4-parameter handler, and it receives
\* exactly that error (radix-tree path and linear path alike).
C3_ErrorReachesErrorHandler ==
    \A r \in Requests : \A i \in 1..Len(Calls(r)) :
        LET c == Calls(r)[i]
            later == {p \in (c.pos + 1)..Len(router.stack) :
                         /\ router.stack[p].handler.arity = 4
                         /\ MatchesRequest(router.stack[p], reqs[r])}
        IN  (Quiesced(r) /\ c.arity < 4 /\ c.beh \in {"nextErr", "asyncNextErr"}
                /\ later # {}) =>
                /\ i < Len(Calls(r))
                /\ Calls(r)[i + 1].pos = Min(later)
                /\ Calls(r)[i + 1].err = c.hid

\* C4: a pending error is never dropped: out is never invoked with another
\* argument (or none) while an error is pending.
C4_ErrorNeverDropped ==
    \A r \in Requests : \A i \in 1..Len(Outs(r)) :
        Outs(r)[i].pending > 0 => Outs(r)[i].err = Outs(r)[i].pending

\* C5: after a 4-parameter handler that received the pending error calls
\* next(), and while no later handler raises an error or ends the chain, every
\* later matching handler with fewer than 4 parameters runs, no later
\* 4-parameter handler runs, and out gets no argument.
C5_ErrorModeCleared ==
    \A r \in Requests : \A i \in 1..Len(Calls(r)) :
        LET c == Calls(r)[i]
            after == {j \in 1..Len(Calls(r)) : j > i}
            normal == {p \in (c.pos + 1)..Len(router.stack) :
                          /\ router.stack[p].handler.arity < 4
                          /\ MatchesRequest(router.stack[p], reqs[r])}
        IN  (/\ Quiesced(r)
             /\ c.arity = 4 /\ Truthy(c.err) /\ c.beh \in {"next", "asyncNext"}
             /\ \A j \in after : Calls(r)[j].beh \in {"next", "asyncNext"}) =>
                /\ \A p \in normal : \E j \in after : Calls(r)[j].pos = p
                /\ \A j \in after : Calls(r)[j].arity < 4
                /\ Len(Outs(r)) = 1
                /\ Outs(r)[1].err = 0

\* C6: a 4-parameter handler is invoked only while an error is pending and
\* receives that error; a handler with fewer parameters is invoked only while
\* no error is pending.
C6_AritySoleDiscriminator ==
    \A r \in Requests : \A i \in 1..Len(Calls(r)) :
        LET c == Calls(r)[i]
        IN  IF c.arity = 4 THEN c.pending > 0 /\ c.err = c.pending
            ELSE c.pending = 0

\* C7: a request whose handlers throw (or reject) and its twin, whose handlers
\* call next(e) with the same value instead, invoke the same handlers in the
\* same order and give out the same argument; Router.handle never rejects.
HandlerOrder(r) == [i \in 1..Len(Calls(r)) |-> Calls(r)[i].hid]
OutArguments(r) == [i \in 1..Len(Outs(r)) |-> Outs(r)[i].err]
C7_ThrowIsNextErr ==
    /\ (Quiesced(1) /\ Quiesced(2)) =>
          /\ HandlerOrder(1) = HandlerOrder(2)
          /\ OutArguments(1) = OutArguments(2)
    /\ \A f \in 1..Len(frames) :
          frames[f].kind = "handle" => frames[f].status # "rejected"

\* C8: a layer that matches path and verb but fails a constraint is passed
\* over: the scan goes on to the next layer of the stack.
ConstraintFails(layer, rq, path) ==
    /\ match(layer, path)
    /\ (layer.method = "USE" \/ layer.method = rq.method)
    /\ layer.constraints.defined
    /\ ~validateParams(layer, params(layer, path))
C8_ConstraintFallsThrough ==
    \A r \in Requests : \A i \in 1..Len(trace[r]) :
        LET e == trace[r][i]
        IN  (/\ e.ev = "test"
             /\ ConstraintFails(router.stack[e.pos], reqs[r], e.path)
             /\ e.pos < Len(router.stack)
             /\ i < Len(trace[r])) =>
                trace[r][i + 1].ev = "test" /\ trace[r][i + 1].pos = e.pos + 1

\* C9: find never returns a route together with a parameter value that
\* violates the route's constraint on that parameter.
C9_FindRespectsConstraints ==
    \A r \in Requests :
        reqs[r].match.ok => constraintsPass(reqs[r].match.route, reqs[r].match.params)

\* C10: whenever the dispatcher tests a layer, req.path and req.baseUrl have
\* the values they had at dispatch entry.
C10_SiblingsSeeOriginalPath ==
    \A r \in Requests : \A i \in 1..Len(trace[r]) :
        trace[r][i].ev = "test" =>
            /\ trace[r][i].path = reqs[r].entryPath
            /\ trace[r][i].baseUrl = <<>>

\* ------------------------------------------------------------- resolution
\* Registrations and requests that exercise the segment kinds of a pattern
\* (static, :param, :param?, *, **), mounting and parameter merging.
P_users_id == <<"/", "u", "s", "e", "r", "s", "/", ":", "i", "d">>
P_users_opt == <<"/", "u", "s", "e", "r", "s", "/", ":", "i", "d", "?">>
P_files_all == <<"/", "f", "i", "l", "e", "s", "/", "*", "*">>
P_a_star == <<"/", "a", "/", "*">>
P_a_all == <<"/", "a", "/", "*", "*">>
P_a_7 == <<"/", "a", "/", "7">>
P_a_p == <<"/", "a", "/", ":", "p">>
P_a_77 == <<"/", "a", "/", "7", "7">>
P_a_777 == <<"/", "a", "/", "7", "7", "7">>
P_api == <<"/", "a", "p", "i">>
P_api_slash == <<"/", "a", "p", "i", "/">>
P_ping == <<"/", "p", "i", "n", "g">>
P_ping_bare == <<"p", "i", "n", "g">>
P_param == <<"/", ":", "i", "d">>
P_api_ping == <<"/", "a", "p", "i", "/", "p", "i", "n", "g">>
N_p == <<"p">>

\* routes registered as router.get(path, constraints?, fn) / router.post(path, fn)
PatternMenu ==
    { [method |-> "GET", path |-> P_users_id, constraints |-> NoConstraints],
      [method |-> "GET", path |-> P_users_opt, constraints |-> NoConstraints],
      [method |-> "GET", path |-> P_files_all, constraints |-> NoConstraints],
      [method |-> "GET", path |-> P_a_star, constraints |-> NoConstraints],
      [method |-> "GET", path |-> P_a_all, constraints |-> NoConstraints],
      [method |-> "GET", path |-> P_a_7, constraints |-> NoConstraints],
      [method |-> "POST", path |-> P_a_7, constraints |-> NoConstraints],
      [method |-> "GET", path |-> P_a_p, constraints |-> DigitsOn(N_p)],
      [method |-> "GET", path |-> P_a_77, constraints |-> NoConstraints] }

ResolvePaths ==
    { <<"/", "u", "s", "e", "r", "s", "/", "4", "2">>,
      <<"/", "u", "s", "e", "r", "s", "/", "4", "2", "/", "x">>,
      <<"/", "u", "s", "e", "r", "s">>,
      <<"/", "f", "i", "l", "e", "s", "/", "a", "/", "b", "/", "c">>,
      <<"/", "f", "i", "l", "e", "s">>,
      <<"/", "a", "/", "7">>,
      <<"/", "a", "/", "8">>,
      <<"/", "a", "/", "x">>,
      <<"/", "a", "/", "7", "7">>,
      <<"/", "a", "/", "b", "/", "c">>,
      <<"/", "a">>,
      <<"/", "a", "p", "i", "/", "p", "i", "n", "g">>,
      <<"/", "a", "p", "i", "a", "r", "y">> }

\* mount prefixes, and the sub-routers mounted: new Router().get(path, fn),
\* with or without a use(fn) before it
MountPrefixes == {P_api, P_api_slash, P_slash}
SubRouter(path, withUse, hid) ==
    LET r0 == Router(<<>>, FALSE)
        r1 == IF withUse THEN use(r0, FALSE, <<>>, <<Handler(hid, 3)>>) ELSE r0
    IN  route(r1, "GET", path, NoConstraints,
              <<Handler(IF withUse THEN hid + 1 ELSE hid, 3)>>)
SubRouters(hid) ==
    {SubRouter(path, withUse, hid) : path \in {P_ping, P_ping_bare}, withUse \in BOOLEAN}

MaxResolveLayers == 2
Resolving(n) == ~serving /\ Len(router.stack) + n <= MaxResolveLayers

RegPattern ==
    /\ Resolving(1)
    /\ \E rt \in PatternMenu :
          router' = route(router, rt.method, rt.path, rt.constraints,
                          <<Handler(nextHid, 3)>>)
    /\ nextHid' = nextHid + 1
    /\ UNCHANGED <<response, engine, serving, reqs, frames, callstack, mq, trace>>

\* router.use("/:id", fn), router.use("/api", fn)
RegUseParam ==
    /\ Resolving(1)
    /\ \E path \in {P_param, P_api} :
          router' = use(router, TRUE, path, <<Handler(nextHid, 3)>>)
    /\ nextHid' = nextHid + 1
    /\ UNCHANGED <<response, engine, serving, reqs, frames, callstack, mq, trace>>

\* router.mount(prefix, sub)
RegMountSub ==
    /\ \E prefix \in MountPrefixes, sub \in SubRouters(nextHid) :
          /\ Resolving(Len(sub.stack))
          /\ router' = mount(router, prefix, sub)
          /\ nextHid' = nextHid + Len(sub.stack)
    /\ UNCHANGED <<response, engine, serving, reqs, frames, callstack, mq, trace>>

DispatchResolve ==
    \E path \in ResolvePaths : handle(1, "GET", path)

\* the handlers of these requests call next() or end the response
NextResolve ==
    \/ RegPattern \/ RegUseParam \/ RegMountSub
    \/ DispatchResolve
    \/ ReturnTail \/ Await \/ HandleReturn
    \/ NextExhausted \/ NextSkip \/ NextConstraintFail \/ NextEnter \/ NextFinally
    \/ ExecMwRoutes \/ ExecMwSkip \/ ExecMwEnter \/ ExecMwResume
    \/ ExecRtDone \/ ExecRtCall \/ ExecRtResume
    \/ HandlerNext \/ HandlerEnd \/ HandlerReturn

SpecResolve == Init /\ [][NextResolve]_vars

\* the layer whose handler a call event invoked
LayerOf(c) == router.stack[c.pos]

\* the request is GET /api/ping and the stack holds the mounted GET /ping layer
MountedPing(r) ==
    /\ reqs[r].active
    /\ reqs[r].entryPath = P_api_ping
    /\ \E p \in 1..Len(router.stack) :
          router.stack[p].method = "GET" /\ router.stack[p].path = P_api_ping

\* C11: with GET /ping mounted at /api, GET /api/ping invokes the handler, the
\* handler sees req.path = /ping and req.baseUrl = /api, and once the dispatch
\* is over req.path and req.baseUrl have their original values.
C11_MountStripsPrefix ==
    \A r \in Requests :
        /\ \A i \in 1..Len(Calls(r)) :
              LET c == Calls(r)[i] IN
              (MountedPing(r) /\ LayerOf(c).method = "GET"
                  /\ LayerOf(c).path = P_api_ping) =>
                  c.path = P_ping /\ c.baseUrl = P_api
        /\ (Quiesced(r) /\ MountedPing(r) /\ Len(router.stack) = 1) =>
              Len(Calls(r)) = 1
        /\ (Quiesced(r) /\ MountedPing(r)) =>
              reqs[r].path = reqs[r].entryPath /\ reqs[r].baseUrl = <<>>

\* The parts of C11 the router keeps: the mounted handler is invoked, and the
\* request leaves the dispatch with its original path.
C11_MountedHandlerRuns ==
    \A r \in Requests :
        /\ (Quiesced(r) /\ MountedPing(r) /\ Len(router.stack) = 1) =>
              Len(Calls(r)) = 1
        /\ (Quiesced(r) /\ MountedPing(r)) =>
              reqs[r].path = reqs[r].entryPath /\ reqs[r].baseUrl = <<>>

\* p is prefix joined with path, separators normalised: a leading separator,
\* no doubled separator, the segments of prefix followed by those of path
\* (a trailing separator is optional)
NoDoubledSeparator(p) ==
    \A i \in 1..(Len(p) - 1) : ~(p[i] = "/" /\ p[i + 1] = "/")
WellJoined(p, prefix, path) ==
    /\ startsWith(p, <<"/">>)
    /\ NoDoubledSeparator(p)
    /\ splitSegments(p) = splitSegments(prefix) \o splitSegments(path)

\* the tree holds, on some node, a route of this verb registered under path
\* with this handler
TreeHolds(tree, method, path, handler) ==
    \E n \in 1..Len(tree.nodes) :
        /\ method \in DOMAIN tree.nodes[n].routes
        /\ tree.nodes[n].routes[method].path = path
        /\ tree.nodes[n].routes[method].handlers = <<handler>>

\* after is before with sub mounted at prefix, as the specification has it
MountedAsJoined(before, prefix, sub, after) ==
    /\ Len(after.stack) = Len(before.stack) + Len(sub.stack)
    /\ SubSeq(after.stack, 1, Len(before.stack)) = before.stack
    /\ \A i \in 1..Len(sub.stack) :
          LET old == sub.stack[i]
              new == after.stack[Len(before.stack) + i]
          IN  /\ new.method = old.method
              /\ new.handler = old.handler
              /\ WellJoined(new.path, prefix, old.path)
              /\ (before._radixTree.present /\ old.method # "USE") =>
                    TreeHolds(after._radixTree.tree, old.method, new.path, old.handler)
    /\ before._radixTree.present =>
          /\ after._radixTree.present
          /\ \A n \in 1..Len(after._radixTree.tree.nodes) :
                "USE" \notin DOMAIN after._radixTree.tree.nodes[n].routes
          /\ after._radixTree.tree._routeCount =
                before._radixTree.tree._routeCount
                    + Cardinality({i \in 1..Len(sub.stack) : sub.stack[i].method # "USE"})
    /\ ~before._radixTree.present => after._radixTree = before._radixTree

\* C12: mount(P, sub) appends one layer per layer of sub, in sub's order, with
\* the same verb and handler and the path P joined with the original path,
\* and registers each non-USE one (and no USE one) under that path in the
\* parent's radix tree.
C12_MountJoinsPaths ==
    [][\A prefix \in MountPrefixes : \A sub \in SubRouters(nextHid) :
          (router' # router /\ router' = mount(router, prefix, sub)) =>
              MountedAsJoined(router, prefix, sub, router')]_vars

\* The part of C12 the router keeps: the same, for a prefix other than "/"
\* or a sub-router path that begins with the separator.
C12_MountJoinsRootedPaths ==
    [][\A prefix \in MountPrefixes : \A sub \in SubRouters(nextHid) :
          (/\ router' # router
           /\ router' = mount(router, prefix, sub)
           /\ (prefix # P_slash
                  \/ \A i \in 1..Len(sub.stack) : startsWith(sub.stack[i].path, <<"/">>))) =>
              MountedAsJoined(router, prefix, sub, router')]_vars

\* the bindings the matched route itself makes for the request: those of the
\* trie match, or on the linear path those of the layer's pattern
OwnBindings(r, c) ==
    IF reqs[r].match.ok THEN reqs[r].match.params
    ELSE params(LayerOf(c), c.path)

\* C13: when a route handler runs after handlers of earlier layers, req.params
\* holds every name bound for them, and each name the route itself binds has
\* the route's value.
C13_InnerBindingWins ==
    \A r \in Requests : \A i \in 1..Len(Calls(r)) :
        LET c == Calls(r)[i] IN
        (LayerOf(c).method # "USE"
            /\ \A j \in 1..(i - 1) : Calls(r)[j].pos < c.pos) =>
            /\ \A k \in DOMAIN OwnBindings(r, c) :
                  k \in DOMAIN c.params /\ c.params[k] = OwnBindings(r, c)[k]
            /\ \A j \in 1..(i - 1) :
                  DOMAIN Calls(r)[j].params \subseteq DOMAIN c.params

\* neither the trie nor any layer matches the request's verb and path
NothingMatches(r) ==
    /\ reqs[r].active
    /\ ~reqs[r].match.ok
    /\ \A p \in 1..Len(router.stack) :
          ~(/\ match(router.stack[p], reqs[r].entryPath)
            /\ (router.stack[p].method = "USE"
                   \/ router.stack[p].method = reqs[r].method))

\* C14: when no trie entry and no layer matches the request, no handler is
\* invoked and out is invoked with no argument.
C14_NoMatchNoArgument ==
    \A r \in Requests :
        NothingMatches(r) =>
            /\ Calls(r) = <<>>
            /\ Quiesced(r) => (Len(Outs(r)) = 1 /\ Outs(r)[1].err = 0)

\* a dispatch over two registered layers, none matching, has ended
C14_Witness ==
    /\ Quiesced(1)
    /\ NothingMatches(1)
    /\ Len(router.stack) = 2
    /\ router._radixTree.present
    /\ Len(Outs(1)) = 1

\* the router holds one route layer, and a request has been resolved against
\* it: by the trie when the router has one, by the layer's pattern otherwise
OnlyRoute(r) ==
    /\ reqs[r].active
    /\ Len(router.stack) = 1
    /\ router.stack[1].method = reqs[r].method
Resolved(r) ==
    IF router._radixTree.present THEN reqs[r].match.ok
    ELSE match(router.stack[1], reqs[r].entryPath)
ResolvedParams(r) ==
    IF router._radixTree.present THEN reqs[r].match.params
    ELSE params(router.stack[1], reqs[r].entryPath)

HasCatchAll(pattern) ==
    \E i \in 1..(Len(pattern) - 1) : pattern[i] = "*" /\ pattern[i + 1] = "*"
Value42 == <<"4", "2">>
P_users_42 == <<"/", "u", "s", "e", "r", "s", "/", "4", "2">>

\* with only /users/:id registered: /users/42 resolves with {id: "42"}, and
\* no other path of another segment count resolves
ParamOneSegment(r) ==
    (OnlyRoute(r) /\ router.stack[1].path = P_users_id) =>
        /\ reqs[r].entryPath = P_users_42 =>
              (Resolved(r) /\ ResolvedParams(r) = [k \in {N_id} |-> Value42])
        /\ Resolved(r) =>
              Len(splitSegments(reqs[r].entryPath)) = 2

\* C15: a param segment matches exactly one segment (/users/:id resolves
\* /users/42 with {id: "42"}, not /users/42/x and not /users), and a pattern
\* without a catch-all resolves only paths with as many segments as it has.
C15_SameSegmentCount ==
    \A r \in Requests :
        /\ ParamOneSegment(r)
        /\ (OnlyRoute(r) /\ ~HasCatchAll(router.stack[1].path) /\ Resolved(r)) =>
              Len(splitSegments(reqs[r].entryPath))
                  = Len(splitSegments(router.stack[1].path))

\* The part of C15 both matchers keep: the param segment of /users/:id.
C15_ParamOneSegment == \A r \in Requests : ParamOneSegment(r)


\* ---------------------------------------------------------------------------
\* Catch-all, optional and wildcard segments
\* ---------------------------------------------------------------------------
P_files_abc == <<"/", "f", "i", "l", "e", "s", "/", "a", "/", "b", "/", "c">>
P_users == <<"/", "u", "s", "e", "r", "s">>
P_a_b_c == <<"/", "a", "/", "b", "/", "c">>
Value_abc == <<"a", "/", "b", "/", "c">>
Value_x == <<"x">>

\* the request r is being resolved by a router whose only route is `pattern`
Resolves(r, pattern, path) ==
    /\ OnlyRoute(r)
    /\ router.stack[1].path = pattern
    /\ reqs[r].entryPath = path

Binds(r, value) ==
    \E k \in DOMAIN ResolvedParams(r) : ResolvedParams(r)[k] = value

\* C16: with only /files/** registered, resolving /files/a/b/c matches and
\* yields a parameter whose value is a/b/c, in the radix tree and in the
\* linear scan alike.
C16_CatchAllBindsRemainder ==
    \A r \in Requests :
        Resolves(r, P_files_all, P_files_abc) =>
            /\ Resolved(r)
            /\ Binds(r, Value_abc)

\* the radix tree alone does bind the joined remainder
C16_RadixBindsRemainder ==
    \A r \in Requests :
        (Resolves(r, P_files_all, P_files_abc) /\ router._radixTree.present) =>
            /\ Resolved(r)
            /\ Binds(r, Value_abc)

P_files_root == <<"/", "f", "i", "l", "e", "s">>

\* C17: with only /files/** registered, resolving /files matches the route
\* and binds the catch-all parameter to the empty remainder.
C17_CatchAllMatchesZero ==
    \A r \in Requests :
        Resolves(r, P_files_all, P_files_root) =>
            /\ Resolved(r)
            /\ Binds(r, <<>>)

\* C18: with only /users/:id? registered, /users resolves to the route with
\* id absent, and /users/42 resolves to it with id = "42".
C18_OptionalZeroOrOne ==
    \A r \in Requests :
        /\ Resolves(r, P_users_opt, P_users) =>
              /\ Resolved(r)
              /\ N_id \notin DOMAIN ResolvedParams(r)
        /\ Resolves(r, P_users_opt, P_users_42) =>
              /\ Resolved(r)
              /\ ResolvedParams(r) = [k \in {N_id} |-> Value42]

\* the one-segment half: /users/42 resolves with id = "42"
C18_OptionalOne ==
    \A r \in Requests :
        Resolves(r, P_users_opt, P_users_42) =>
            /\ Resolved(r)
            /\ ResolvedParams(r) = [k \in {N_id} |-> Value42]

\* C19: with only /a/* registered, /a/x resolves with the synthetic name
\* bound to x, and /a/b/c and /a do not resolve.
C19_WildcardOneSegment ==
    \A r \in Requests :
        /\ Resolves(r, P_a_star, P_ax) =>
              /\ Resolved(r)
              /\ ResolvedParams(r) = [k \in {WildcardName} |-> Value_x]
        /\ Resolves(r, P_a_star, P_a_b_c) => ~Resolved(r)
        /\ Resolves(r, P_a_star, P_a) => ~Resolved(r)

\* the linear scan alone keeps the wildcard to one segment
C19_LayerWildcardOneSegment ==
    \A r \in Requests :
        ~router._radixTree.present =>
            /\ Resolves(r, P_a_star, P_ax) =>
                  /\ Resolved(r)
                  /\ ResolvedParams(r) = [k \in {WildcardName} |-> Value_x]
            /\ Resolves(r, P_a_star, P_a_b_c) => ~Resolved(r)
            /\ Resolves(r, P_a_star, P_a) => ~Resolved(r)

\* ---------------------------------------------------------------------------
\* Specificity and backtracking of the trie search
\* ---------------------------------------------------------------------------
\* The kind of a pattern segment: ":name?" optional, ":name" param, "**"
\* catch-all, "*" wildcard, anything else static.
SegmentKind(segment) ==
    IF segment[1] = ":" /\ segment[Len(segment)] = "?" THEN "optional"
    ELSE IF segment[1] = ":" THEN "param"
    ELSE IF segment = <<"*", "*">> THEN "catchAll"
    ELSE IF segment = <<"*">> THEN "wildcard"
    ELSE "static"

\* the pattern segments ps from position i on match the path segments xs from
\* position j on: static equal, param and wildcard one segment, optional
\* zero or one, catch-all the remainder (zero or more)
RECURSIVE PatternMatches(_, _, _, _)
PatternMatches(ps, i, xs, j) ==
    IF i > Len(ps) THEN j > Len(xs)
    ELSE LET kind == SegmentKind(ps[i]) IN
         CASE kind = "catchAll" -> TRUE
           [] kind = "optional" ->
                \/ PatternMatches(ps, i + 1, xs, j)
                \/ j <= Len(xs) /\ PatternMatches(ps, i + 1, xs, j + 1)
           [] kind = "static" ->
                j <= Len(xs) /\ xs[j] = ps[i] /\ PatternMatches(ps, i + 1, xs, j + 1)
           [] OTHER ->
                j <= Len(xs) /\ PatternMatches(ps, i + 1, xs, j + 1)

\* the values the param segments of a matching pattern take on the path
ParamValues(ps, xs) ==
    [k \in {ParamSegmentName(ps[i]) :
               i \in {n \in 1..Len(ps) : SegmentKind(ps[n]) = "param" /\ n <= Len(xs)}}
        |-> xs[CHOOSE n \in 1..Len(ps) : ParamSegmentName(ps[n]) = k]]

\* the route of a layer matches a request for (method, path): verb, pattern
\* and constraints
RouteMatches(layer, method, path) ==
    LET ps == splitSegments(layer.path)
        xs == splitSegments(path)
    IN  /\ layer.method = method
        /\ PatternMatches(ps, 1, xs, 1)
        /\ layer.constraints.defined =>
              \A k \in DOMAIN layer.constraints.map :
                  k \in DOMAIN ParamValues(ps, xs) =>
                      TestConstraint(layer.constraints.map[k], ParamValues(ps, xs)[k])

Candidates(r) ==
    {i \in 1..Len(router.stack) :
        RouteMatches(router.stack[i], reqs[r].method, reqs[r].entryPath)}

\* the first position where two patterns differ, 0 when one is a prefix of
\* the other
FirstDifference(ps, qs) ==
    LET d == {i \in 1..Min({Len(ps), Len(qs)}) : ps[i] # qs[i]}
    IN  IF d = {} THEN 0 ELSE CHOOSE i \in d : \A k \in d : i <= k

KindRank(kind) ==
    CASE kind = "static" -> 3
      [] kind \in {"param", "optional"} -> 2
      [] OTHER -> 1

\* pattern p is static where q is param or catch-all, or param where q is
\* catch-all, at the first segment where they differ
MoreSpecific(p, q) ==
    LET ps == splitSegments(p)
        qs == splitSegments(q)
        d == FirstDifference(ps, qs)
    IN  /\ d > 0
        /\ SegmentKind(qs[d]) # "wildcard" /\ SegmentKind(ps[d]) # "wildcard"
        /\ KindRank(SegmentKind(ps[d])) > KindRank(SegmentKind(qs[d]))

SearchedByTrie(r) == reqs[r].active /\ router._radixTree.present

\* among the matching routes the most specific one is returned
PrefersSpecific(r) ==
    \A i, j \in Candidates(r) :
        (reqs[r].match.ok /\ MoreSpecific(router.stack[i].path, router.stack[j].path)) =>
            reqs[r].match.route.path # router.stack[j].path

\* no binding of an abandoned branch is returned: there are no more bindings
\* than the returned route has named segments
BindingsOfReturnedRoute(r) ==
    reqs[r].match.ok =>
        Cardinality(DOMAIN reqs[r].match.params)
            <= Len(paramNamesOf(reqs[r].match.route.path))

\* C20: the trie search prefers the static branch over the param branch and
\* the param branch over the catch-all branch, returns only the bindings of
\* the branch it ends on, and never reports no match for a path that some
\* registered route matches.
C20_SpecificFirstAndComplete ==
    \A r \in Requests :
        SearchedByTrie(r) =>
            /\ PrefersSpecific(r)
            /\ BindingsOfReturnedRoute(r)
            /\ Candidates(r) # {} => reqs[r].match.ok

\* the order of preference and the discarding of bindings hold on their own
C20_SpecificFirst ==
    \A r \in Requests :
        SearchedByTrie(r) => (PrefersSpecific(r) /\ BindingsOfReturnedRoute(r))

\* ---------------------------------------------------------------------------
\* The radix tree on its own: add calls, then a find call
\* ---------------------------------------------------------------------------
P_user == <<"/", "u", "s", "e", "r">>
P_users_uid_posts == <<"/", "u", "s", "e", "r", "s", "/", ":", "u", "i", "d", "/", "p", "o", "s", "t", "s">>
P_files_all_x == <<"/", "f", "i", "l", "e", "s", "/", "*", "*", "/", "x">>
N_uid == <<"u", "i", "d">>

\* the (verb, pattern, constraints) triples registered
TreeMenu ==
    { [method |-> "GET", path |-> P_a_7, constraints |-> NoConstraints],
      [method |-> "POST", path |-> P_a_7, constraints |-> NoConstraints],
      [method |-> "GET", path |-> P_a_77, constraints |-> NoConstraints],
      [method |-> "GET", path |-> P_a_777, constraints |-> NoConstraints],
      [method |-> "GET", path |-> P_ping, constraints |-> NoConstraints],
      [method |-> "GET", path |-> P_users, constraints |-> NoConstraints],
      [method |-> "GET", path |-> P_user, constraints |-> NoConstraints],
      [method |-> "GET", path |-> P_users_id, constraints |-> NoConstraints],
      [method |-> "GET", path |-> P_users_uid_posts, constraints |-> NoConstraints],
      [method |-> "GET", path |-> P_users_opt, constraints |-> NoConstraints],
      [method |-> "GET", path |-> P_a_p, constraints |-> DigitsOn(N_p)],
      [method |-> "GET", path |-> P_a_star, constraints |-> NoConstraints],
      [method |-> "GET", path |-> P_files_all, constraints |-> NoConstraints],
      [method |-> "GET", path |-> P_files_all_x, constraints |-> NoConstraints] }

\* the paths looked up
TreePaths ==
    { <<"/", "a", "/", "7">>,
      <<"/", "A", "/", "7">>,
      <<"/", "a", "/", "7", "/">>,
      <<"/", "a", "/", "7", "7">>,
      P_a_777,
      <<"/", "a", "/", "x">>,
      <<"/", "a", "/", "b", "/", "c">>,
      <<"/", "a">>,
      <<"/", "p", "i", "n", "g">>,
      <<"/", "u", "s", "e", "r">>,
      <<"/", "u", "s", "e", "r", "s">>,
      <<"/", "u", "s", "e", "r", "/", "s">>,
      <<"/", "u", "s", "e", "r", "s", "/", "4", "2">>,
      <<"/", "u", "s", "e", "r", "s", "/", "4", "2", "/", "p", "o", "s", "t", "s">>,
      <<"/", "f", "i", "l", "e", "s">>,
      <<"/", "f", "i", "l", "e", "s", "/", "a", "/", "b", "/", "c">>,
      <<"/", "f", "i", "l", "e", "s", "/", "a", "/", "x">> }

MaxTreeRoutes == 3

\* router.route(method, path, [constraints,] handler) on a radix-tree router:
\* RadixTree.add and a Layer for the same pattern
AddRoute ==
    /\ ~serving
    /\ router._radixTree.present
    /\ Len(router.stack) < MaxTreeRoutes
    /\ \E rt \in TreeMenu :
          router' = route(router, rt.method, rt.path, rt.constraints,
                          <<Handler(nextHid, 3)>>)
    /\ nextHid' = nextHid + 1
    /\ UNCHANGED <<response, engine, serving, reqs, frames, callstack, mq, trace>>

\* tree.find(method, path): the result is kept in the request record
FindRoute ==
    /\ ~serving
    /\ router._radixTree.present
    /\ \E method \in {"GET", "POST"}, path \in TreePaths :
          reqs' = [reqs EXCEPT ![1] =
                      [IdleRequest EXCEPT
                          !.method = method, !.path = path, !.entryPath = path,
                          !.match = find(router._radixTree.tree, method, path)]]
    /\ serving' = TRUE
    /\ UNCHANGED <<response, engine, router, nextHid, frames, callstack, mq, trace>>

InitTree == Init /\ router._radixTree.present

NextTree == AddRoute \/ FindRoute

SpecTree == InitTree /\ [][NextTree]_vars

\* a find call has been made and its result is held
LookedUp == serving /\ ~reqs[1].active /\ reqs[1].entryPath # <<>>

StaticPattern(p) ==
    \A i \in 1..Len(splitSegments(p)) : SegmentKind(splitSegments(p)[i]) = "static"

\* two patterns branch at a tree position on static segments that begin alike
SharePrefix(p, q) ==
    LET ps == splitSegments(p)
        qs == splitSegments(q)
        d == FirstDifference(ps, qs)
    IN  /\ d > 0
        /\ SegmentKind(ps[d]) = "static" /\ SegmentKind(qs[d]) = "static"
        /\ ps[d][1] = qs[d][1]

\* the registered routes are static, pairwise different and share no prefix
StaticRoutesApart ==
    \A i, j \in 1..Len(router.stack) :
        /\ StaticPattern(router.stack[i].path)
        /\ ~SharePrefix(router.stack[i].path, router.stack[j].path)
        /\ (i # j) =>
              \/ router.stack[i].path # router.stack[j].path
              \/ router.stack[i].method # router.stack[j].method

\* the result held is the route of layer i with the parameter map ps
Returns(i, ps) ==
    /\ reqs[1].match.ok
    /\ reqs[1].match.route.method = router.stack[i].method
    /\ reqs[1].match.route.path = router.stack[i].path
    /\ reqs[1].match.route.handlers = <<router.stack[i].handler>>
    /\ reqs[1].match.params = ps

\* C21: when the registered routes are static and share no prefix, find of a
\* registered (verb, path) returns the route registered for it with an empty
\* parameter map.
C21_StaticRoutesFound ==
    (LookedUp /\ StaticRoutesApart) =>
        \A i \in 1..Len(router.stack) :
            (/\ router.stack[i].method = reqs[1].method
             /\ router.stack[i].path = reqs[1].entryPath) => Returns(i, EmptyMap)

C21_Witness ==
    /\ LookedUp /\ StaticRoutesApart
    /\ Len(router.stack) = 3
    /\ router.stack[1].path # router.stack[3].path
    /\ reqs[1].method = "POST"
    /\ \E i \in 1..3 : router.stack[i].method = "POST" /\ Returns(i, EmptyMap)

\* a pattern of static and :param segments with at least one :param
ParamPattern(p) ==
    LET ps == splitSegments(p)
    IN  /\ \A i \in 1..Len(ps) : SegmentKind(ps[i]) \in {"static", "param"}
        /\ \E i \in 1..Len(ps) : SegmentKind(ps[i]) = "param"

\* the path looked up is the pattern of layer i with values substituted for
\* its parameters, and no other registered route matches it
BuiltFrom(i) ==
    /\ ParamPattern(router.stack[i].path)
    /\ Candidates(1) = {i}

RoundTrip(i) ==
    Returns(i, ParamValues(splitSegments(router.stack[i].path),
                           splitSegments(reqs[1].entryPath)))

\* C22: resolving the path built by substituting values into a registered
\* pattern returns that route with each of its own parameter names bound to
\* the value substituted, whatever else is registered.
C22_BindingsRoundTrip ==
    LookedUp =>
        \A i \in 1..Len(router.stack) : BuiltFrom(i) => RoundTrip(i)

\* the round trip holds when the pattern is the only one registered
C22_RoundTripAlone ==
    (LookedUp /\ Len(router.stack) = 1) => (BuiltFrom(1) => RoundTrip(1))

\* the patterns the route tables hold: those of the trie's route entries and
\* those of the layers
TablePatterns ==
    {router.stack[i].path : i \in 1..Len(router.stack)}
    \cup UNION { {router._radixTree.tree.nodes[n].routes[m].path :
                      m \in DOMAIN router._radixTree.tree.nodes[n].routes} :
                  n \in 1..Len(router._radixTree.tree.nodes) }

\* a catch-all segment of the pattern is followed by another segment
CatchAllNotLast(p) ==
    \E i \in 1..(Len(splitSegments(p)) - 1) :
        SegmentKind(splitSegments(p)[i]) = "catchAll"

\* C23: a pattern whose catch-all segment is not its last segment is refused
\* at registration, so the route tables never hold one.
C23_CatchAllIsLast ==
    \A p \in TablePatterns : ~CatchAllNotLast(p)

\* the name a pattern gives to the param segment at position i, NoName if it
\* has no param segment there
NameAt(p, i) ==
    LET ps == splitSegments(p)
    IN  IF i <= Len(ps) /\ SegmentKind(ps[i]) \in {"param", "optional"}
        THEN ParamSegmentName(ps[i]) ELSE NoName

\* two patterns reach the same tree position i and name its parameter
\* differently
NameConflict(p, q) ==
    \E i \in 1..Min({Len(splitSegments(p)), Len(splitSegments(q))}) :
        /\ \A k \in 1..(i - 1) :
              \/ splitSegments(p)[k] = splitSegments(q)[k]
              \/ NameAt(p, k) # NoName /\ NameAt(q, k) # NoName
        /\ NameAt(p, i) # NoName /\ NameAt(q, i) # NoName
        /\ NameAt(p, i) # NameAt(q, i)

\* C24: two patterns that put different parameter names at the same tree
\* position are refused at registration, so the route tables never hold both.
C24_OneNamePerPosition ==
    \A p, q \in TablePatterns : ~NameConflict(p, q)

\* s.toLowerCase()
toLowerCase(s) == [i \in 1..Len(s) |-> Lower(s[i])]

\* the path looked up differs from the static pattern of layer i in letter
\* case only
CaseVariantOf(i) ==
    /\ StaticPattern(router.stack[i].path)
    /\ router.stack[i].method = reqs[1].method
    /\ reqs[1].entryPath # router.stack[i].path
    /\ toLowerCase(reqs[1].entryPath) = toLowerCase(router.stack[i].path)

\* C25: a request path that differs from a registered static route only in
\* letter case resolves to that route.
C25_StaticCaseInsensitive ==
    (LookedUp /\ Len(router.stack) = 1 /\ CaseVariantOf(1)) => Returns(1, EmptyMap)

\* the Layer pattern of the route does accept the other letter case
C25_LayerCaseInsensitive ==
    (LookedUp /\ Len(router.stack) = 1 /\ CaseVariantOf(1)) =>
        match(router.stack[1], reqs[1].entryPath)

\* the Layer of the only route and the tree holding only that route agree on
\* the path looked up: both reject it, or both accept it with the same
\* bindings
MatchersAgree ==
    /\ (/\ match(router.stack[1], reqs[1].entryPath)
        /\ validateParams(router.stack[1],
                          params(router.stack[1], reqs[1].entryPath)))
          <=> reqs[1].match.ok
    /\ reqs[1].match.ok =>
          params(router.stack[1], reqs[1].entryPath) = reqs[1].match.params

OnePattern ==
    LookedUp /\ Len(router.stack) = 1 /\ router.stack[1].method = reqs[1].method

\* C26: for every pattern and every path, the Layer compiled from the
\* pattern matches the path iff a tree holding only that pattern finds it,
\* and both bind the same names to the same values.
C26_MatchersAgree ==
    OnePattern => MatchersAgree

\* the matchers agree on static and :param patterns for lower-case paths
\* without a trailing separator
C26_AgreeOnPlainPaths ==
    (/\ OnePattern
     /\ \A i \in 1..Len(splitSegments(router.stack[1].path)) :
           SegmentKind(splitSegments(router.stack[1].path)[i]) \in {"static", "param"}
     /\ reqs[1].entryPath = toLowerCase(reqs[1].entryPath)
     /\ ~endsWith(reqs[1].entryPath, <<"/">>)) => MatchersAgree

\* ---------------------------------------------------------------------------
\* The adapter: Application.fetch's done, _handleError and ResponseImpl.send
\* ---------------------------------------------------------------------------
MaxAdapterCalls == 3

\* what is handed to _resolve: new Response(this._body, {status, headers})
ResponseOf(res) ==
    [status |-> res._status, contentType |-> res.contentType, body |-> res._body]

\* an activation that writes to the response: a call of done(err) or a
\* handler's res.send(data)
Call(kind, err, pc, data) == [kind |-> kind, err |-> err, pc |-> pc, data |-> data]

\* res.send(data) up to its first await: returns at once when already sent,
\* otherwise waits for the beforeResponse hooks
sendEnter(res, c, data) ==
    IF res._sent THEN [c EXCEPT !.pc = "finished"]
    ELSE [c EXCEPT !.pc = "beforeResponse", !.data = data]

\* done(err) is called: with an error it awaits _handleError, which first
\* awaits the onError hooks; without one it sends 404 unless already sent
DoneCall ==
    /\ Len(response.calls) < MaxAdapterCalls
    /\ \E err \in BOOLEAN :
          LET c == Call("done", err, "entered", "null") IN
          response' =
              IF err
              THEN [response EXCEPT !.calls = Append(@, [c EXCEPT !.pc = "onError"])]
              ELSE IF ~response._sent
              THEN [response EXCEPT
                       !._status = 404,
                       !.calls = Append(@, sendEnter(response, c, "Not Found"))]
              ELSE [response EXCEPT !.calls = Append(@, [c EXCEPT !.pc = "finished"])]
    /\ UNCHANGED <<routerVars, engine>>

\* a handler calls res.send("ok")
SendCall ==
    /\ Len(response.calls) < MaxAdapterCalls
    /\ response' = [response EXCEPT
                       !.calls = Append(@, sendEnter(response,
                                     Call("send", FALSE, "entered", "null"), "ok"))]
    /\ UNCHANGED <<routerVars, engine>>

\* _handleError after the onError hooks: status and JSON body unless sent
OnErrorHooksDone ==
    /\ \E i \in 1..Len(response.calls) :
          /\ response.calls[i].pc = "onError"
          /\ response' =
                IF ~response._sent
                THEN [response EXCEPT
                         !._status = 500,
                         !.contentType = "application/json",
                         !.calls[i] = sendEnter(response, @, "error")]
                ELSE [response EXCEPT !.calls[i].pc = "finished"]
    /\ UNCHANGED <<routerVars, engine>>

\* send after the beforeResponse hooks: body, sent flag, _resolve
BeforeResponseHooksDone ==
    /\ \E i \in 1..Len(response.calls) :
          /\ response.calls[i].pc = "beforeResponse"
          /\ LET res == [response EXCEPT !._body = response.calls[i].data,
                                         !._sent = TRUE]
             IN  response' = [res EXCEPT !.resolved = Append(@, ResponseOf(res)),
                                         !.calls[i].pc = "afterResponse"]
    /\ UNCHANGED <<routerVars, engine>>

\* send after the afterResponse hooks: returns
AfterResponseHooksDone ==
    /\ \E i \in 1..Len(response.calls) :
          /\ response.calls[i].pc = "afterResponse"
          /\ response' = [response EXCEPT !.calls[i].pc = "finished"]
    /\ UNCHANGED <<routerVars, engine>>

NextAdapter ==
    \/ DoneCall \/ SendCall
    \/ OnErrorHooksDone \/ BeforeResponseHooksDone \/ AfterResponseHooksDone

SpecAdapter == Init /\ [][NextAdapter]_vars

\* a response has been produced
Produced == response.resolved # <<>>

\* C27: once a response has been produced, further calls of done neither
\* change its status, headers or body nor produce a second response.
C27_DoneIdempotent ==
    Produced =>
        /\ Len(response.resolved) = 1
        /\ ResponseOf(response) = response.resolved[1]

\* a call of done or send made after the response was produced leaves the
\* response as it is
C27_LateDoneIsNoOp ==
    [][(Produced /\ Len(response'.calls) > Len(response.calls)) =>
          /\ response'.resolved = response.resolved
          /\ ResponseOf(response') = ResponseOf(response)]_vars

\* ---------------------------------------------------------------------------
\* Two requests in flight on one router
\* ---------------------------------------------------------------------------
MaxPairLayers == 2

PairPaths == {P_ax, P_x}

\* one registration: use("/a", fn), use("/x", fn), useError(fn),
\* get("/a/x", fn) or get("/a/:p", {p: /^\d+$/}, fn)
RegPair ==
    /\ ~serving
    /\ Len(router.stack) < MaxPairLayers
    /\ router' \in
          { use(router, TRUE, P_a, <<Handler(nextHid, 3)>>),
            use(router, TRUE, P_x, <<Handler(nextHid, 3)>>),
            useError(router, Handler(nextHid, 4)),
            route(router, "GET", P_ax, NoConstraints, <<Handler(nextHid, 3)>>),
            route(router, "GET", P_a_p, DigitsOn(N_p), <<Handler(nextHid, 3)>>) }
    /\ nextHid' = nextHid + 1
    /\ UNCHANGED <<response, engine, serving, reqs, frames, callstack, mq, trace>>

\* request r arrives, whether or not the other request is still in flight
DispatchPair(r) ==
    /\ router.stack # <<>>
    /\ \E path \in PairPaths :
          handleFrom(r, "GET", path, [IdleRequest EXCEPT !.own = TRUE])

NextPair ==
    \/ RegPair
    \/ DispatchPair(1) \/ DispatchPair(2)
    \/ ReturnTail \/ Await \/ HandleReturn
    \/ NextExhausted \/ NextSkip \/ NextConstraintFail \/ NextEnter
    \/ NextCatch \/ NextCatchRejected \/ NextFinally
    \/ ExecMwError \/ ExecMwRoutes \/ ExecMwSkip \/ ExecMwEnter
    \/ ExecMwCatch \/ ExecMwResume
    \/ ExecRtError \/ ExecRtDone \/ ExecRtCall \/ ExecRtCatch \/ ExecRtResume
    \/ HandlerNext \/ HandlerNextErr \/ HandlerThrow \/ HandlerEnd
    \/ (\E beh \in AsyncBehaviours : HandlerAwaitIo(beh))
    \/ (\E h \in 1..Len(frames) : IoComplete(h))
    \/ HandlerReturn

SpecPair == Init /\ [][NextPair]_vars

\* the step changes the Request object, the scan positions or the trace of r
Touched(r) == reqs'[r] # reqs[r] \/ trace'[r] # trace[r]

\* the step is taken by an activation of request r, or dispatches r
Acting(r) ==
    \/ callstack # <<>> /\ frames[Top].req = r
    \/ callstack = <<>> /\ mq # <<>> /\ frames[Head(mq)].req = r
    \/ /\ callstack = <<>> /\ mq = <<>>
       /\ \/ ~reqs[r].active /\ reqs'[r].active
          \/ \E h \in 1..Len(frames) :
                frames[h].req = r /\ frames[h].status = "io" /\ frames'[h].status # "io"

\* every handler does the same thing each time it is invoked
SameBodies ==
    \A r1, r2 \in Requests :
        \A i \in 1..Len(Calls(r1)), j \in 1..Len(Calls(r2)) :
            Calls(r1)[i].hid = Calls(r2)[j].hid => Calls(r1)[i].beh = Calls(r2)[j].beh

\* both requests are over and asked for the same thing
SameOutcomeDue ==
    /\ Quiesced(1) /\ Quiesced(2)
    /\ reqs[1].entryPath = reqs[2].entryPath
    /\ SameBodies

\* activations of the two requests were created in alternation
Interleaved ==
    \E f1, f2, f3 \in 1..Len(frames) :
        /\ f1 < f2 /\ f2 < f3
        /\ frames[f1].req = 1 /\ frames[f2].req = 2 /\ frames[f3].req = 1

\* C28: concurrent requests are isolated: a step of one dispatch never
\* changes the Request object, the scan positions or the trace of the other,
\* and two requests for the same path served by the same handlers see the
\* same handler invocations, the same req.path, baseUrl and params in each and
\* the same boundary-callback arguments, however they interleave.
C28_RequestsIsolated ==
    [][ /\ \A r \in Requests : Touched(r) => Acting(r)
        /\ SameOutcomeDue' => trace'[1] = trace'[2] ]_vars

C28_Witness ==
    /\ SameOutcomeDue
    /\ Interleaved
    /\ trace[1] = trace[2]
    /\ Len(Calls(1)) >= 2
    /\ \E i \in 1..Len(Calls(1)) : Calls(1)[i].path # reqs[1].entryPath

\* ---------------------------------------------------------------------------
\* MiddlewareEngine.execute with per-handler timeouts
\* ---------------------------------------------------------------------------
MaxEngineSize == 3

\* The middlewares of an engine, none of them an error handler:
\*   "timed"    engine.use(fn): options.timeout > 0, raced by _runWithTimeout
\*   "wrapped"  engine.use(timeout(ms, fn), {timeout: 0}): raced by the wrapper
EngineKinds == {"timed", "wrapped"}

\* one invocation of a handler: the handler is waiting for its I/O or has
\* finished, its race is settled or not, its timer is armed or has fired, and
\* `nexts` counts the calls of the continuation made for this invocation;
\* `err` is the error an error handler was invoked with and `did` what the
\* handler did when it went on
Act(mw) ==
    [mw |-> mw, handler |-> "io", settled |-> FALSE, timer |-> "armed", nexts |-> 0,
     err |-> "null", did |-> "none"]

\* entries registered with {timeout: 0} are called without a timer:
\*   "plain"  engine.use(fn, {timeout: 0})
\*   "error"  engine.useError(fn, {timeout: 0}), isErrorHandler
UntimedKinds == {"plain", "error"}

\* next(err) of execute: record the error, call done at the end of the list,
\* while an error is current skip the handlers that are not error handlers
\* and invoke the next error handler with it, otherwise skip the error
\* handlers and invoke the next handler
RECURSIVE engineNext(_, _)
engineNext(E, err) ==
    LET E1 == IF err # "null" THEN [E EXCEPT !.currentError = err] ELSE E
    IN  IF E1.idx >= Len(E1.middlewares)
        THEN [E1 EXCEPT !.doneCalls = Append(@, E1.currentError)]
        ELSE LET E2 == [E1 EXCEPT !.idx = @ + 1]
                 entry == E2.middlewares[E2.idx]
                 act == [Act(E2.idx) EXCEPT
                            !.err = E2.currentError,
                            !.timer = IF entry \in UntimedKinds THEN "none" ELSE "armed"]
             IN  IF E2.currentError # "null"
                 THEN IF entry = "error"
                      THEN [E2 EXCEPT !.acts = Append(@, act)]
                      ELSE engineNext(E2, E2.currentError)
                 ELSE IF entry # "error"
                      THEN [E2 EXCEPT !.acts = Append(@, act)]
                      ELSE engineNext(E2, "null")

\* engine.execute(req, res, done) on an engine of one to MaxEngineSize
\* middlewares: `await next()`
EngineExecute ==
    /\ ~engine.started
    /\ \E n \in 1..MaxEngineSize : \E mws \in [1..n -> EngineKinds] :
          engine' = engineNext([engine EXCEPT !.started = TRUE, !.middlewares = mws],
                               "null")
    /\ UNCHANGED <<routerVars, response>>

\* the await of an invocation is over: "Error was handled, clear it" after
\* an error handler whose race was not lost to the timer
AfterHandler(E, k, won) ==
    IF won /\ E.middlewares[E.acts[k].mw] = "error"
    THEN [E EXCEPT !.currentError = "null"] ELSE E

\* the handler's I/O completes; it calls next() and returns
EngineHandlerNext ==
    /\ \E k \in 1..Len(engine.acts) :
          /\ engine.acts[k].handler = "io"
          /\ engine' = AfterHandler(
                           engineNext([engine EXCEPT !.acts[k].handler = "finished",
                                                     !.acts[k].settled = TRUE,
                                                     !.acts[k].did = "next",
                                                     !.acts[k].nexts = @ + 1],
                                      "null"),
                           k, ~engine.acts[k].settled)
    /\ UNCHANGED <<routerVars, response>>

\* the handler's I/O completes; it returns without calling next
EngineHandlerEnd ==
    /\ \E k \in 1..Len(engine.acts) :
          /\ engine.acts[k].handler = "io"
          /\ engine' = AfterHandler([engine EXCEPT !.acts[k].handler = "finished",
                                                   !.acts[k].settled = TRUE,
                                                   !.acts[k].did = "end"],
                                     k, ~engine.acts[k].settled)
    /\ UNCHANGED <<routerVars, response>>

\* the timer of an invocation fires: the race rejects unless it is settled,
\* and the rejection is passed to next
TimerFires(k, kind) ==
    /\ k \in 1..Len(engine.acts)
    /\ engine.acts[k].timer = "armed"
    /\ engine.middlewares[engine.acts[k].mw] = kind
    /\ engine' =
          IF engine.acts[k].settled
          THEN [engine EXCEPT !.acts[k].timer = "fired"]
          ELSE engineNext([engine EXCEPT !.acts[k].timer = "fired",
                                         !.acts[k].settled = TRUE,
                                         !.acts[k].nexts = @ + 1],
                          "timeout")
    /\ UNCHANGED <<routerVars, response>>

\* _runWithTimeout's race rejects into the catch of next: return next(e)
EngineTimeout == \E k \in 1..Len(engine.acts) : TimerFires(k, "timed")

\* the race of timeout(ms, fn) rejects into the wrapper's catch: next(err)
WrapperTimeout == \E k \in 1..Len(engine.acts) : TimerFires(k, "wrapped")

NextEngine ==
    \/ EngineExecute
    \/ EngineHandlerNext \/ EngineHandlerEnd
    \/ EngineTimeout \/ WrapperTimeout

SpecEngine == Init /\ [][NextEngine]_vars

\* C29: the continuation is invoked at most once per handler invocation and
\* the final callback is reached at most once, whether the timer or the
\* handler comes first.
C29_ContinuationOnce ==
    /\ \A k \in 1..Len(engine.acts) : engine.acts[k].nexts <= 1
    /\ Len(engine.doneCalls) <= 1

\* when the handler finishes first, the later expiry of its timer changes
\* nothing but the timer
C29_LateTimerNoEffect ==
    [][\A k \in 1..Len(engine.acts) :
          (/\ engine.acts[k].settled
           /\ engine.acts[k].timer = "armed"
           /\ engine'.acts[k].timer = "fired") =>
              engine' = [engine EXCEPT !.acts[k].timer = "fired"]]_vars

\* when the timer fires first, the timeout error reaches the final callback
C29_TimeoutForwarded ==
    \A k \in 1..Len(engine.acts) :
        (engine.acts[k].timer = "fired" /\ engine.acts[k].handler = "io") =>
            /\ engine.doneCalls # <<>>
            /\ engine.doneCalls[1] = "timeout"

\* ---------------------------------------------------------------------------
\* Handlers that throw after they have called their continuation
\* ---------------------------------------------------------------------------
MaxLateLayers == 3

\*   nextThrow  (req, res, next) => { next(); throw e }
\* a body of the requests dispatched with `late` set: the call of next()
HandlerNextThenThrow ==
    /\ Running("handler", "entry")
    /\ reqs[frames[Top].req].late
    /\ LET fr == frames[Top] IN
       /\ trace' = [trace EXCEPT ![fr.req] = Append(@, CallEvent(fr, "nextThrow", reqs[fr.req]))]
       /\ reqs' = [reqs EXCEPT ![fr.req].pending = PendingAfter(@, fr, 0)]
       /\ SetLoop(CallContinuation([Loop EXCEPT !.frames[Top].beh = "nextThrow"], Top, 0))
    /\ UNCHANGED <<response, engine, router, nextHid, serving>>

\* the continuation has returned; the handler throws
HandlerThrowLate ==
    /\ Running("handler", "afterNext")
    /\ frames[Top].beh = "nextThrow"
    /\ LET fr == frames[Top] IN
       /\ reqs' = [reqs EXCEPT ![fr.req].pending = PendingAfter(@, fr, fr.hid)]
       /\ SetLoop(Finish(Loop, Top, "threw", fr.hid))
    /\ UNCHANGED <<response, engine, router, nextHid, serving, trace>>

\* one registration: use("/a", fn), use("/x", fn), useError(fn),
\* get("/a/x", fn) or get("/a/:p", {p: /^\d+$/}, fn)
RegLate ==
    /\ ~serving
    /\ Len(router.stack) < MaxLateLayers
    /\ router' \in
          { use(router, TRUE, P_a, <<Handler(nextHid, 3)>>),
            use(router, TRUE, P_x, <<Handler(nextHid, 3)>>),
            useError(router, Handler(nextHid, 4)),
            route(router, "GET", P_ax, NoConstraints, <<Handler(nextHid, 3)>>),
            route(router, "GET", P_a_p, DigitsOn(N_p), <<Handler(nextHid, 3)>>) }
    /\ nextHid' = nextHid + 1
    /\ UNCHANGED <<response, engine, serving, reqs, frames, callstack, mq, trace>>

DispatchLate ==
    /\ router.stack # <<>>
    /\ \E path \in PairPaths :
          handleFrom(1, "GET", path, [IdleRequest EXCEPT !.late = TRUE])

NextLate ==
    \/ RegLate
    \/ DispatchLate
    \/ ReturnTail \/ Await \/ HandleReturn
    \/ NextExhausted \/ NextSkip \/ NextConstraintFail \/ NextEnter
    \/ NextCatch \/ NextCatchRejected \/ NextFinally
    \/ ExecMwError \/ ExecMwRoutes \/ ExecMwSkip \/ ExecMwEnter
    \/ ExecMwCatch \/ ExecMwResume
    \/ ExecRtError \/ ExecRtDone \/ ExecRtCall \/ ExecRtCatch \/ ExecRtResume
    \/ HandlerNext \/ HandlerNextErr \/ HandlerThrow \/ HandlerEnd
    \/ HandlerNextThenThrow \/ HandlerThrowLate
    \/ (\E beh \in AsyncBehaviours : HandlerAwaitIo(beh))
    \/ (\E h \in 1..Len(frames) : IoComplete(h))
    \/ HandlerReturn

SpecLate == Init /\ [][NextLate]_vars

\* C30: out is invoked at most once per dispatch, also when a handler throws
\* after it has called its continuation.
C30_OutAtMostOnce ==
    \A r \in Requests : Len(Outs(r)) <= 1

\* the catch path does not scan again: once out has been invoked for a
\* request, no further handler is invoked for it
C30_NoScanAfterOut ==
    [][\A r \in Requests :
          Outs(r) # <<>> => Len(Calls(r)') = Len(Calls(r))]_vars

\* without a handler that throws after its continuation, out is invoked at
\* most once
C30_OnceWithoutLateThrow ==
    \A r \in Requests :
        (\A i \in 1..Len(Calls(r)) : Calls(r)[i].beh # "nextThrow") =>
            Len(Outs(r)) <= 1

\* ---------------------------------------------------------------------------
\* Soundness and completeness of the trie
\* ---------------------------------------------------------------------------
\* the pattern matches the path segment by segment: the same number of
\* segments unless the pattern ends in a catch-all, and every static segment
\* of the pattern equal to the path segment at its position
MatchesBySegment(pattern, path) ==
    LET ps == _parsePath(pattern)
        xs == splitSegments(path)
    IN  /\ IF Len(ps) > 0 /\ ps[Len(ps)].type = CATCH_ALL
           THEN Len(xs) >= Len(ps) - 1
           ELSE Len(xs) = Len(ps)
        /\ \A i \in 1..Len(ps) :
              ps[i].type = STATIC => (i <= Len(xs) /\ xs[i] = ps[i].path)

\* no two registered patterns branch on static segments that begin alike
NoSharedPrefix ==
    \A i, j \in 1..Len(router.stack) :
        ~SharePrefix(router.stack[i].path, router.stack[j].path)

\* C31: find returns a route only if the route's registered pattern matches
\* the path segment by segment; /users is never returned for /user/s.
C31_TrieSound ==
    (LookedUp /\ reqs[1].match.ok) =>
        MatchesBySegment(reqs[1].match.route.path, reqs[1].entryPath)

\* the trie is sound when no two patterns share the beginning of a static
\* segment at the position where they part
C31_SoundWithoutSharedPrefix ==
    (LookedUp /\ reqs[1].match.ok /\ NoSharedPrefix) =>
        MatchesBySegment(reqs[1].match.route.path, reqs[1].entryPath)


\* every registered pattern is static
AllStatic == \A i \in 1..Len(router.stack) : StaticPattern(router.stack[i].path)

\* the result held is the route registered as (verb, pattern) of layer i
ReturnsRouteOf(i) ==
    /\ reqs[1].match.ok
    /\ reqs[1].match.route.method = router.stack[i].method
    /\ reqs[1].match.route.path = router.stack[i].path

\* layer i's route claims the request: verb, pattern and constraints are
\* satisfied and no more specific registered pattern is satisfied as well
Claims(i) ==
    LET sat(k) == /\ router.stack[k].method = reqs[1].method
                  /\ MatchesBySegment(router.stack[k].path, reqs[1].entryPath)
                  /\ RouteMatches(router.stack[k], reqs[1].method, reqs[1].entryPath)
    IN  /\ sat(i)
        /\ \A j \in 1..Len(router.stack) :
              sat(j) => ~MoreSpecific(router.stack[j].path, router.stack[i].path)

\* C32: after any sequence of add calls, find of a registered static (verb,
\* path) returns the route registered for it, also when static segments of
\* different routes share a first character or a prefix.
C32_StaticResolvable ==
    (LookedUp /\ AllStatic) =>
        \A i \in 1..Len(router.stack) :
            (/\ router.stack[i].method = reqs[1].method
             /\ router.stack[i].path = reqs[1].entryPath) => ReturnsRouteOf(i)

\* the same for every kind of pattern: the route that claims the path is
\* the one returned
C32_ClaimedResolvable ==
    LookedUp => \A i \in 1..Len(router.stack) : Claims(i) => ReturnsRouteOf(i)


\* ---------------------------------------------------------------------------
\* The routes listing of the trie
\* ---------------------------------------------------------------------------
\* RadixTree._collectRoutes(node, routes): the (node, verb) slots whose
\* entries are pushed, those of the node and of the nodes below it
RECURSIVE _collectRoutes(_, _)
_collectRoutes(tree, node) ==
    LET n == tree.nodes[node]
        below == {n.children[k] : k \in DOMAIN n.children}
                    \cup ({n.paramChild, n.wildcardChild} \ {NoNode})
    IN  {[node |-> node, method |-> m] : m \in DOMAIN n.routes}
            \cup UNION {_collectRoutes(tree, c) : c \in below}

\* get routes(): the entries listed, and how many there are
routes(tree) ==
    {tree.nodes[s.node].routes[s.method] : s \in _collectRoutes(tree, RootNode)}
listed(tree) == Cardinality(_collectRoutes(tree, RootNode))

\* get count()
count(tree) == tree._routeCount

\* the (verb, pattern) pairs registered are pairwise different
DistinctRoutes(stack) ==
    \A i, j \in 1..Len(stack) :
        (stack[i].method = stack[j].method /\ stack[i].path = stack[j].path) => i = j

\* C33: adding a route whose (verb, pattern) differs from every registered
\* one keeps every entry already listed, makes the listing one entry longer,
\* and leaves count equal to the number of entries listed.
C33_AddPreservesRoutes ==
    [][(Len(router'.stack) > Len(router.stack) /\ DistinctRoutes(router'.stack)) =>
          LET t == router._radixTree.tree
              u == router'._radixTree.tree
          IN  /\ routes(t) \subseteq routes(u)
              /\ listed(u) = listed(t) + 1
              /\ count(u) = listed(u)]_vars

\* the same for static patterns alone, where branches are made by node
\* splits and remainders: every registered route is listed
C33_StaticAddsPreserveRoutes ==
    (AllStatic /\ DistinctRoutes(router.stack)) =>
        /\ listed(router._radixTree.tree) = Len(router.stack)
        /\ count(router._radixTree.tree) = Len(router.stack)
        /\ \A i \in 1..Len(router.stack) :
              \E e \in routes(router._radixTree.tree) :
                  /\ e.method = router.stack[i].method
                  /\ e.path = router.stack[i].path
                  /\ e.handlers = <<router.stack[i].handler>>


\* ---------------------------------------------------------------------------
\* Shape of the trie
\* ---------------------------------------------------------------------------
TreeNodes == router._radixTree.tree.nodes

\* the node slots that refer to node c: children entries, paramChild,
\* wildcardChild
ReferencesTo(c) ==
    UNION { {<<n, "children", k>> : k \in {x \in DOMAIN TreeNodes[n].children :
                                              TreeNodes[n].children[x] = c}}
              \cup (IF TreeNodes[n].paramChild = c THEN {<<n, "paramChild">>} ELSE {})
              \cup (IF TreeNodes[n].wildcardChild = c THEN {<<n, "wildcardChild">>} ELSE {})
            : n \in 1..Len(TreeNodes) }

\* C34: after any sequence of add calls, every static child is stored under
\* the first character of its own non-empty text, so no two static children
\* of a node begin with the same character, and every node has at most one
\* param child and at most one catch-all child.
C34_TrieShape ==
    router._radixTree.present =>
        /\ \A n \in 1..Len(TreeNodes) :
              /\ \A k \in DOMAIN TreeNodes[n].children :
                    LET c == TreeNodes[TreeNodes[n].children[k]]
                    IN  c.type = STATIC /\ c.path # <<>> /\ c.path[1] = k
              /\ \A k1, k2 \in DOMAIN TreeNodes[n].children :
                    LET c1 == TreeNodes[TreeNodes[n].children[k1]]
                        c2 == TreeNodes[TreeNodes[n].children[k2]]
                    IN  (c1.path # <<>> /\ c2.path # <<>> /\ c1.path[1] = c2.path[1])
                            => k1 = k2
              /\ TreeNodes[n].paramChild # NoNode =>
                    TreeNodes[TreeNodes[n].paramChild].type = PARAM
              /\ TreeNodes[n].wildcardChild # NoNode =>
                    TreeNodes[TreeNodes[n].wildcardChild].type = CATCH_ALL
        /\ \A c \in 2..Len(TreeNodes) : Cardinality(ReferencesTo(c)) = 1
        /\ ReferencesTo(RootNode) = {}

\* /users was split by /user, the demoted node keeps the route, and the
\* root has two static children
C34_Witness ==
    /\ router._radixTree.present
    /\ Len(router.stack) = 3
    /\ router.stack[1].path = P_users /\ router.stack[2].path = P_user
    /\ \E n \in 2..Len(TreeNodes) :
          /\ TreeNodes[n].path = <<"u", "s", "e", "r">>
          /\ TreeNodes[n].routes # NoRoutes
          /\ DOMAIN TreeNodes[n].children = {"s"}
          /\ TreeNodes[TreeNodes[n].children["s"]].routes # NoRoutes
    /\ Cardinality(DOMAIN TreeNodes[RootNode].children) >= 2


\* ---------------------------------------------------------------------------
\* The same registrations with and without the radix tree
\* ---------------------------------------------------------------------------
\* A router created with useRadixTree: true receives the registrations; the
\* router created without it that receives the same registrations has the
\* same stack and no tree.  Request 1 is handled by the former, request 2,
\* for the same verb and path, by the latter.
DispatchRadix ==
    /\ router.stack # <<>>
    /\ \E path \in PairPaths :
          handleFrom(1, "GET", path, [IdleRequest EXCEPT !.own = TRUE])

DispatchPlain ==
    /\ Quiesced(1)
    /\ handleOn(NoTree, 2, reqs[1].method, reqs[1].entryPath,
                [IdleRequest EXCEPT !.own = TRUE])

NextBoth ==
    \/ RegPair
    \/ DispatchRadix \/ DispatchPlain
    \/ ReturnTail \/ Await \/ HandleReturn
    \/ NextExhausted \/ NextSkip \/ NextConstraintFail \/ NextEnter
    \/ NextCatch \/ NextCatchRejected \/ NextFinally
    \/ ExecMwError \/ ExecMwRoutes \/ ExecMwSkip \/ ExecMwEnter
    \/ ExecMwCatch \/ ExecMwResume
    \/ ExecRtError \/ ExecRtDone \/ ExecRtCall \/ ExecRtCatch \/ ExecRtResume
    \/ HandlerNext \/ HandlerNextErr \/ HandlerThrow \/ HandlerEnd
    \/ (\E beh \in AsyncBehaviours : HandlerAwaitIo(beh))
    \/ (\E h \in 1..Len(frames) : IoComplete(h))
    \/ HandlerReturn

SpecBoth == InitTree /\ [][NextBoth]_vars

\* what a dispatch shows to the outside: the handlers invoked, in order,
\* with the req.params each of them saw, and the arguments of out
Invocations(r) ==
    [i \in 1..Len(Calls(r)) |-> [hid |-> Calls(r)[i].hid, params |-> Calls(r)[i].params]]

BothServed == Quiesced(1) /\ Quiesced(2) /\ SameBodies

\* C35: for the same registrations a router with the radix tree and one
\* without it invoke the same handlers in the same order with the same
\* req.params and call out with the same argument.
C35_TreeIsAccelerator ==
    BothServed =>
        /\ Invocations(1) = Invocations(2)
        /\ OutArguments(1) = OutArguments(2)

\* when the trie reports no match the two routers act alike
C35_SameWithoutMatch ==
    (BothServed /\ ~reqs[1].match.ok) =>
        /\ Invocations(1) = Invocations(2)
        /\ OutArguments(1) = OutArguments(2)


\* ---------------------------------------------------------------------------
\* Several handlers for one (verb, pattern)
\* ---------------------------------------------------------------------------
\* every handler invoked for r called next() with no argument
AllCallNext(r) ==
    \A i \in 1..Len(Calls(r)) : Calls(r)[i].beh \in {"next", "asyncNext"}

\* the layers registered for the verb and, literally, the path of request r
RegisteredFor(r) ==
    {i \in 1..Len(router.stack) :
        /\ router.stack[i].method = reqs[r].method
        /\ router.stack[i].path = reqs[r].entryPath}

\* handler hid was invoked for r; position of its invocation
Invoked(r, hid) == \E i \in 1..Len(Calls(r)) : Calls(r)[i].hid = hid
InvokedAt(r, hid) == CHOOSE i \in 1..Len(Calls(r)) : Calls(r)[i].hid = hid

\* C36: on a router with the radix tree, every handler registered for the
\* (verb, pattern) of a matching request runs, in registration order, each
\* after the previous one called next.
C36_NoHandlerLost ==
    (Quiesced(1) /\ AllCallNext(1) /\ reqs[1].match.ok) =>
        /\ \A i \in RegisteredFor(1) : Invoked(1, router.stack[i].handler.hid)
        /\ \A i, j \in RegisteredFor(1) :
              (i < j /\ Invoked(1, router.stack[i].handler.hid)
                     /\ Invoked(1, router.stack[j].handler.hid)) =>
                  InvokedAt(1, router.stack[i].handler.hid)
                      < InvokedAt(1, router.stack[j].handler.hid)

\* the router without the tree does run every handler registered for a
\* static (verb, pattern), in registration order, when no layer strips a
\* prefix or carries constraints
C36_LinearRunsAll ==
    (Quiesced(2) /\ AllCallNext(2) /\ Len(Outs(2)) = 1 /\ Outs(2)[1].pos = 0
        /\ (\A k \in 1..Len(router.stack) :
                /\ ~router.stack[k].constraints.defined
                /\ router.stack[k].method = "USE" => router.stack[k].path = P_slash)) =>
        /\ \A i \in RegisteredFor(2) : Invoked(2, router.stack[i].handler.hid)
        /\ \A i, j \in RegisteredFor(2) :
              i < j => InvokedAt(2, router.stack[i].handler.hid)
                          < InvokedAt(2, router.stack[j].handler.hid)


\* ---------------------------------------------------------------------------
\* The working path seen by handlers
\* ---------------------------------------------------------------------------
\* baseUrl followed by path is the original path, "/" standing for an empty
\* remainder
Rebuilds(baseUrl, path, original) ==
    \/ baseUrl \o path = original
    \/ path = <<"/">> /\ baseUrl = original

WorkingPathOk(c, original) ==
    /\ c.path # <<>>
    /\ c.path[1] = "/"
    /\ Rebuilds(c.baseUrl, c.path, original)

\* the layer of an invocation is a USE layer whose pattern is plain text
PlainUse(c) ==
    /\ router.stack[c.pos].method = "USE"
    /\ StaticPattern(router.stack[c.pos].path)

\* C37: at every handler invocation req.path begins with the separator and
\* req.baseUrl followed by req.path is the original request path.
C37_WorkingPath ==
    \A r \in Requests : \A i \in 1..Len(Calls(r)) :
        WorkingPathOk(Calls(r)[i], reqs[r].entryPath)

\* the part that concerns USE layers matched by plain prefix test
C37_PlainPrefixWorkingPath ==
    \A r \in Requests : \A i \in 1..Len(Calls(r)) :
        PlainUse(Calls(r)[i]) => WorkingPathOk(Calls(r)[i], reqs[r].entryPath)

\* the part that concerns USE layers with a parameterised pattern: the text
\* moved to baseUrl is the text matched
C37_StripsMatchedText ==
    \A r \in Requests : \A i \in 1..Len(Calls(r)) :
        LET c == Calls(r)[i]
        IN  (c.pos > 0 /\ router.stack[c.pos].method = "USE") =>
                startsWith(reqs[r].entryPath, c.baseUrl)

\* handlers of layers that strip nothing see the path unchanged when no USE
\* layer with a path is registered
C37_NoStripNoChange ==
    \A r \in Requests :
        (\A k \in 1..Len(router.stack) :
            router.stack[k].method = "USE" => router.stack[k].path = P_slash) =>
        \A i \in 1..Len(Calls(r)) :
            /\ Calls(r)[i].path = reqs[r].entryPath
            /\ Calls(r)[i].baseUrl = <<>>


\* ---------------------------------------------------------------------------
\* Middleware registered inside a group
\* ---------------------------------------------------------------------------
\* Registrations: group("/a", g => { g.use(fn); g.get("/x", fn) }),
\* use("/a", fn) and the routes of RouteMenu.  The USE layers with the path
\* "/" are then the ones the group callback registered without a path.
NextGroup ==
    \/ RegGroup \/ RegUsePath \/ RegRoute
    \/ Dispatch(1)
    \/ ReturnTail \/ Await \/ HandleReturn
    \/ NextExhausted \/ NextSkip \/ NextConstraintFail \/ NextEnter
    \/ NextCatch \/ NextCatchRejected \/ NextFinally
    \/ ExecMwError \/ ExecMwRoutes \/ ExecMwSkip \/ ExecMwEnter
    \/ ExecMwCatch \/ ExecMwResume
    \/ ExecRtError \/ ExecRtDone \/ ExecRtCall \/ ExecRtCatch \/ ExecRtResume
    \/ HandlerNext \/ HandlerNextErr \/ HandlerThrow \/ HandlerEnd
    \/ (\E beh \in AsyncBehaviours : HandlerAwaitIo(beh))
    \/ (\E h \in 1..Len(frames) : IoComplete(h))
    \/ HandlerReturn

SpecGroup == Init /\ [][NextGroup]_vars

\* layer i was registered by g.use(fn) inside the group "/a"
GroupMiddleware(i) ==
    /\ router.stack[i].method = "USE"
    /\ router.stack[i].path = P_slash

\* the request path lies within the prefix: the prefix itself or a path below it
Within(path, prefix) ==
    \/ path = prefix
    \/ startsWith(path, prefix \o <<"/">>)

\* C38: a middleware registered inside a group callback without a path is
\* never invoked for a request whose path is outside the group's prefix.
C38_GroupScoped ==
    \A r \in Requests : \A i \in 1..Len(Calls(r)) :
        GroupMiddleware(Calls(r)[i].pos) => Within(reqs[r].entryPath, P_a)

\* the same at registration: every layer a group adds carries a path within
\* the group's prefix
C38_GroupLayersPrefixed ==
    [][\A calls \in {<< UseCall(FALSE, <<>>, <<Handler(nextHid, 3)>>),
                        RouteCall("GET", P_x, NoConstraints,
                                  <<Handler(nextHid + 1, 3)>>) >>} :
          (router' # router /\ router' = group(router, P_a, calls)) =>
              \A i \in (Len(router.stack) + 1)..Len(router'.stack) :
                  Within(router'.stack[i].path, P_a)]_vars

\* the routes registered inside the group are scoped to its prefix
C38_GroupRoutesScoped ==
    \A r \in Requests : \A i \in 1..Len(Calls(r)) :
        LET layer == router.stack[Calls(r)[i].pos]
        IN  (layer.method # "USE" /\ layer.path = P_ax) =>
                Within(reqs[r].entryPath, P_a)


\* ---------------------------------------------------------------------------
\* Restoration of req.path and req.baseUrl
\* ---------------------------------------------------------------------------
Restored(r) == reqs[r].path = reqs[r].entryPath /\ reqs[r].baseUrl = <<>>

\* C39: once a dispatch has quiesced, req.path and req.baseUrl have the
\* values they had at dispatch entry, in every interleaving of handler
\* completions and continuation calls.
C39_PathRestored ==
    \A r \in Requests : Quiesced(r) => Restored(r)

\* no handler that ran under a stripped path called its continuation: each
\* of them ended the chain or threw
StrippedHandlersStop(r) ==
    \A i \in 1..Len(Calls(r)) :
        Calls(r)[i].baseUrl # <<>> => Calls(r)[i].beh \in {"end", "throw", "asyncThrow"}

\* the path is restored when no continuation is called under a stripped path
C39_RestoredWhenStrippedHandlersStop ==
    \A r \in Requests : (Quiesced(r) /\ StrippedHandlersStop(r)) => Restored(r)


\* ---------------------------------------------------------------------------
\* MiddlewareEngine.execute with error handlers
\* ---------------------------------------------------------------------------
MaxErrorChain == 3

\* engine.execute on an engine of plain middlewares and error handlers, in
\* the order _sort leaves them
ErrorsExecute ==
    /\ ~engine.started
    /\ \E n \in 1..MaxErrorChain : \E mws \in [1..n -> UntimedKinds] :
          engine' = engineNext([engine EXCEPT !.started = TRUE, !.middlewares = mws],
                               "null")
    /\ UNCHANGED <<routerVars, response>>

\* the handler's I/O completes; it calls next(e) and returns
EngineHandlerNextErr ==
    /\ \E k \in 1..Len(engine.acts) :
          /\ engine.acts[k].handler = "io"
          /\ engine' = AfterHandler(
                           engineNext([engine EXCEPT !.acts[k].handler = "finished",
                                                     !.acts[k].settled = TRUE,
                                                     !.acts[k].did = "nextErr",
                                                     !.acts[k].nexts = @ + 1],
                                      "error"),
                           k, ~engine.acts[k].settled)
    /\ UNCHANGED <<routerVars, response>>

\* the handler returns and leaves the call of next() to a later task:
\*   (err, req, res, next) => { setTimeout(() => next()) }
EngineHandlerDefer ==
    /\ \E k \in 1..Len(engine.acts) :
          /\ engine.acts[k].handler = "io"
          /\ engine' = AfterHandler([engine EXCEPT !.acts[k].handler = "deferred",
                                                   !.acts[k].settled = TRUE,
                                                   !.acts[k].did = "defer"],
                                     k, ~engine.acts[k].settled)
    /\ UNCHANGED <<routerVars, response>>

\* the later task runs: next()
EngineDeferredNext ==
    /\ \E k \in 1..Len(engine.acts) :
          /\ engine.acts[k].handler = "deferred"
          /\ engine' = engineNext([engine EXCEPT !.acts[k].handler = "finished",
                                                 !.acts[k].nexts = @ + 1],
                                  "null")
    /\ UNCHANGED <<routerVars, response>>

NextErrors ==
    \/ ErrorsExecute
    \/ EngineHandlerNext \/ EngineHandlerNextErr \/ EngineHandlerEnd
    \/ EngineHandlerDefer \/ EngineDeferredNext

SpecErrors == Init /\ [][NextErrors]_vars

\* every invocation is over
EngineQuiet ==
    /\ engine.started
    /\ \A k \in 1..Len(engine.acts) : engine.acts[k].handler = "finished"

\* invocation k is an error handler's, made with the current error, and the
\* handler went on with next() called in its body (how = "next") or in a
\* later task (how = "defer"); every handler invoked after it went on with
\* next() as well
Handled(k, how) ==
    /\ k \in 1..Len(engine.acts)
    /\ engine.acts[k].err # "null"
    /\ engine.acts[k].did = how
    /\ \A j \in (k + 1)..Len(engine.acts) : engine.acts[j].did \in {"next", "defer"}

InvokedKinds(k) == {engine.middlewares[engine.acts[j].mw] : j \in (k + 1)..Len(engine.acts)}
InvokedAfter(k) == {engine.acts[j].mw : j \in (k + 1)..Len(engine.acts)}

\* after invocation k the middlewares that are not error handlers ran, no
\* error handler ran, and done was called once with no error
ErrorCleared(k) ==
    /\ \A p \in (engine.acts[k].mw + 1)..Len(engine.middlewares) :
          engine.middlewares[p] # "error" <=> p \in InvokedAfter(k)
    /\ engine.doneCalls = <<"null">>

\* C40: after an error handler invoked with the current error calls next()
\* with no argument, the following non-error middleware run, later error
\* handlers are skipped, and done is called with no error.
C40_HandledErrorCleared ==
    \A k \in 1..Len(engine.acts) :
        (EngineQuiet /\ (Handled(k, "next") \/ Handled(k, "defer"))) => ErrorCleared(k)

\* the same for an error handler that calls next() in a later task
C40_ClearedWhenNextIsLate ==
    \A k \in 1..Len(engine.acts) :
        (EngineQuiet /\ Handled(k, "defer")) => ErrorCleared(k)

====
